---- MODULE Spec2Model ----
(***************************************************************************)
(* A model of the modal text editor of crates/editor: the position and     *)
(* movement arithmetic of location.rs, the selection and history (undo)    *)
(* operations, the dispatcher do_action of lib.rs and the key bindings and *)
(* the main loop of main.rs.                                               *)
(*                                                                         *)
(* A rope is a sequence of characters; a character is a string.  The only  *)
(* line terminator of the alphabet of the model is "\n".  A panic of the   *)
(* program (unwrap, assert, an index out of bounds in the rope) ends the   *)
(* process: it is the status "panic" of an operation and the variable      *)
(* crashed of the state.                                                   *)
(*                                                                         *)
(* An operator that needs the result of a call more than once takes it as  *)
(* a parameter of a helper operator (named ...With, ...After, ...Then), so *)
(* that every call is written once.                                        *)
(***************************************************************************)
EXTENDS Integers, Sequences, FiniteSets, TLC

\* ------------------------------------------------------------------ bounds
\* A buffer that holds MaxLen characters or more takes no further insertion.
MaxLen == 3
\* A history that holds MaxHist edits or more takes no further editing key.
MaxHist == 2
\* Repeat counts of a movement applied through the dispatcher are 0..MaxCount.
MaxCount == 2
\* The height of the window region the last draw saw (terminal rows).
ScreenHeight == 2
\* A command line that holds MaxCmd characters takes no further character.
MaxCmd == 2
\* A command line that holds MaxLine characters takes no further character
\* from the dispatcher.
MaxLine == 3
\* The command open opens no tab beyond MaxTabs.
MaxTabs == 2

\* ---------------------------------------------------------------- alphabet
NL == "\n"
\* Stands for a character whose UTF-8 encoding has two bytes (U+00E9).
Wide == "E9"
\* The bytes of the UTF-8 encoding of a character.
Utf8Len(c) == IF c = Wide THEN 2 ELSE 1

\* String::len: the bytes of a text, not its characters.
RECURSIVE ByteLen(_)
ByteLen(text) == IF text = <<>> THEN 0 ELSE Utf8Len(Head(text)) + ByteLen(Tail(text))

Min(a, b) == IF a <= b THEN a ELSE b

\* -------------------------------------------------------------------- rope
len_chars(rope) == Len(rope)

Newlines(rope) == {j \in 1..Len(rope) : rope[j] = NL}

\* Rope::len_lines: one more than the number of line terminators.
len_lines(rope) == Cardinality(Newlines(rope)) + 1

\* Rope::line_to_char(i), i zero-based, defined for i <= len_lines (it panics
\* beyond): the char index at which line i starts.
line_to_char(rope, i) ==
    IF i = 0 THEN 0
    ELSE IF i >= len_lines(rope) THEN Len(rope)
    ELSE CHOOSE k \in Newlines(rope) : Cardinality({j \in Newlines(rope) : j <= k}) = i

\* Rope::line(i).len_chars(), i zero-based, defined for i < len_lines (it
\* panics beyond); the line holds its own terminator.
line_len(rope, i) == line_to_char(rope, i + 1) - line_to_char(rope, i)

\* Rope::remove(a..b), Rope::insert(at, text) and Rope::slice(a..b): char
\* indices, zero-based, b exclusive.
rope_remove(rope, a, b) == SubSeq(rope, 1, a) \o SubSeq(rope, b + 1, Len(rope))
rope_insert(rope, at, text) == SubSeq(rope, 1, at) \o text \o SubSeq(rope, at + 1, Len(rope))
rope_slice(rope, a, b) == SubSeq(rope, a + 1, b)

\* ---------------------------------------------------------------- position
Pos(l, c) == [line |-> l, column |-> c]
file_start == Pos(1, 1)

\* derive(PartialOrd, Ord) on Position: by line, then by column.
PosLess(p, q) == p.line < q.line \/ (p.line = q.line /\ p.column < q.column)
PosLeq(p, q) == p = q \/ PosLess(p, q)

\* Line::slice_of is rope.line(zero_based), which panics past the last line.
LineExists(l, rope) == l <= len_lines(rope)
LineLen(l, rope) == line_len(rope, l - 1)
Line_is_first(l) == l = 1
Line_is_last(l, rope) == l = len_lines(rope)
Line_is_empty(l, rope) == LineLen(l, rope) = 0

\* Position::char_of panics (line_to_char) when the line is more than one
\* past the last line.
CharOfDefined(pos, rope) == pos.line - 1 <= len_lines(rope)
char_of(pos, rope) == line_to_char(rope, pos.line - 1) + (pos.column - 1)

is_valid(pos, rope) == pos.column <= LineLen(pos.line, rope)

\* The result of an operation on a position: the position it leaves and
\* "ok", the MovementError it returned ("NoPrevLine", "NoNextLine"), or a
\* panic: "SelectionEmpty" for the panic! of Position::validate, "panic" for
\* any other.
Res(pos, st) == [pos |-> pos, st |-> st]
Panicked(st) == st \in {"panic", "SelectionEmpty"}

\* ---------------------------------------------------------------- movement
Mv(kind, n) == [kind |-> kind, n |-> n]

UpBy(pos, m) ==
    IF m = 0 THEN Res(pos, "NoPrevLine") ELSE Res(Pos(pos.line - m, pos.column), "ok")

move_Up(pos, n) ==
    IF n = 0 THEN Res(pos, "ok") ELSE UpBy(pos, Min(n, pos.line - 1))

RECURSIVE DownLoop(_, _, _, _)
\* A loop of Down that steps onto any next line, empty or not: the stop
\* before an empty line must not hold of it.
DownOntoEmpty(pos, rope, n, moved) ==
    IF n > 0 /\ ~Line_is_last(pos.line, rope)
    THEN DownLoop(Pos(pos.line + 1, pos.column), rope, n - 1, TRUE)
    ELSE Res(pos, IF moved THEN "ok" ELSE "NoNextLine")

DownLoop(pos, rope, n, moved) ==
    IF n > 0 /\ ~Line_is_last(pos.line, rope) /\ ~LineExists(pos.line + 1, rope)
    THEN Res(pos, "panic")
    ELSE IF n > 0 /\ ~Line_is_last(pos.line, rope) /\ LineLen(pos.line + 1, rope) > 0
         THEN DownLoop(Pos(pos.line + 1, pos.column), rope, n - 1, TRUE)
    ELSE Res(pos, IF moved THEN "ok" ELSE "NoNextLine")

move_Down(pos, rope, n) ==
    IF n = 0 THEN Res(pos, "ok") ELSE DownLoop(pos, rope, n, FALSE)

move_LineStart(pos) == Res(Pos(pos.line, 1), "ok")

\* A LineEnd that parks one column past the line: the validity of the
\* result of a movement must not hold of it.
LineEndPast(pos, len) == Res(Pos(pos.line, len + 1), "ok")

\* Column::from_one_based(len): it panics for the length 0 of an empty line.
LineEndWith(pos, len) ==
    IF len = 0 THEN Res(pos, "panic") ELSE Res(Pos(pos.line, len), "ok")

move_LineEnd(pos, rope) ==
    IF ~LineExists(pos.line, rope) THEN Res(pos, "panic")
    ELSE LineEndWith(pos, LineLen(pos.line, rope))

move_FileStart(pos) == move_LineStart(Pos(1, pos.column))

\* A FileEnd that goes to the last line, empty or not: the skip of the
\* trailing empty line must not hold of it.
FileEndOnLast(pos, last, empty) == move_LineStart(Pos(last, pos.column))

\* Line::from_one_based(0) panics: last - 1 on a rope of one empty line.
FileEndWith(pos, last, empty) ==
    IF ~empty THEN move_LineStart(Pos(last, pos.column))
    ELSE IF last = 1 THEN Res(pos, "panic")
    ELSE move_LineStart(Pos(last - 1, pos.column))

move_FileEnd(pos, rope) ==
    FileEndWith(pos, len_lines(rope), Line_is_empty(len_lines(rope), rope))

\* Position::validate, the non-repairing validator, with the length of the
\* line of the position.
ValidateWith(pos, rope, len) ==
    IF pos.column <= len THEN Res(pos, "ok")
    ELSE IF len = 0
         THEN IF ~Line_is_first(pos.line)
              THEN move_LineEnd(move_Up(pos, 1).pos, rope)
              ELSE Res(file_start, "SelectionEmpty")
    ELSE LineEndWith(pos, len)

validate(pos, rope) ==
    IF ~LineExists(pos.line, rope) THEN Res(pos, "panic")
    ELSE ValidateWith(pos, rope, LineLen(pos.line, rope))

\* A unit of Left that wraps to the first column of the previous line: the
\* inverse law of Right and Left must not hold of it.
LeftToLineStart(pos, rope) ==
    IF pos.column = 1
    THEN IF pos.line = 1 THEN Res(pos, "NoPrevLine") ELSE Res(Pos(pos.line - 1, 1), "ok")
    ELSE Res(Pos(pos.line, pos.column - 1), "ok")

\* One unit of Movement::Left, after the validation of the unit.
LeftUnit(pos, rope) ==
    IF pos.column = 1
    THEN IF ~Line_is_first(pos.line)
         THEN move_LineEnd(move_Up(pos, 1).pos, rope)
         ELSE Res(pos, "NoPrevLine")
    ELSE Res(Pos(pos.line, pos.column - 1), "ok")

\* A wrap of Right that keeps the column on the next line: the wrap to the
\* first column must not hold of it.
RightKeepsColumn(d) == d

\* One unit of Movement::Right, after the validation of the unit.
RightAfterDown(d) == IF d.st = "ok" THEN move_LineStart(d.pos) ELSE d

\* A unit of Right that never wraps to the next line: the worked example
\* must not hold of it.
RightNoWrap(pos, rope) == Res(Pos(pos.line, pos.column + 1), "ok")

RightUnit(pos, rope) ==
    IF pos.column = LineLen(pos.line, rope)
    THEN RightAfterDown(move_Down(pos, rope, 1))
    ELSE Res(Pos(pos.line, pos.column + 1), "ok")

RECURSIVE move_Left(_, _, _)
LeftAfterUnit(u, rope, n) == IF u.st # "ok" THEN u ELSE move_Left(u.pos, rope, n - 1)
LeftAfterValidate(v, rope, n) ==
    IF v.st # "ok" THEN v ELSE LeftAfterUnit(LeftUnit(v.pos, rope), rope, n)
\* A Left that stays at the start of the file without an error: NoPrevLine
\* at column 1 of line 1 must not hold of it.
LeftStaysAtStart(pos, rope, n) ==
    IF n = 0 \/ pos = file_start THEN Res(pos, "ok")
    ELSE LeftAfterValidate(validate(pos, rope), rope, n)

move_Left(pos, rope, n) ==
    IF n = 0 THEN Res(pos, "ok") ELSE LeftAfterValidate(validate(pos, rope), rope, n)

RECURSIVE move_Right(_, _, _)
RightAfterUnit(u, rope, n) == IF u.st # "ok" THEN u ELSE move_Right(u.pos, rope, n - 1)
RightAfterValidate(v, rope, n) ==
    IF v.st # "ok" THEN v ELSE RightAfterUnit(RightUnit(v.pos, rope), rope, n)
\* A Right that puts the position back where it started when a unit fails:
\* the partial motion kept on an error must not hold of it.
RestoredTo(pos, r) == IF r.st = "ok" THEN r ELSE Res(pos, r.st)
RightAllOrNothing(pos, rope, n) ==
    IF n = 0 THEN Res(pos, "ok")
    ELSE RestoredTo(pos, RightAfterValidate(validate(pos, rope), rope, n))

move_Right(pos, rope, n) ==
    IF n = 0 THEN Res(pos, "ok") ELSE RightAfterValidate(validate(pos, rope), rope, n)

move_to(pos, rope, m) ==
    CASE m.kind = "Left" -> move_Left(pos, rope, m.n)
      [] m.kind = "Right" -> move_Right(pos, rope, m.n)
      [] m.kind = "Up" -> move_Up(pos, m.n)
      [] m.kind = "Down" -> move_Down(pos, rope, m.n)
      [] m.kind = "LineStart" -> move_LineStart(pos)
      [] m.kind = "LineEnd" -> move_LineEnd(pos, rope)
      [] m.kind = "FileStart" -> move_FileStart(pos)
      [] m.kind = "FileEnd" -> move_FileEnd(pos, rope)

\* --------------------------------------------------------------- selection
Sel(s, e) == [start |-> s, end |-> e]

flip(sel) == Sel(sel.end, sel.start)

\* An order that compares the wrong way round.
OrderBackwards(sel) == IF PosLess(sel.start, sel.end) THEN flip(sel) ELSE sel

order(sel) == IF PosLess(sel.end, sel.start) THEN flip(sel) ELSE sel

\* Selection::range_of: the char range a..b (b exclusive) of the ordered copy.
RangeOfOrdered(o, rope) == [a |-> char_of(o.start, rope), b |-> char_of(o.end, rope) + 1]
range_of(sel, rope) == RangeOfOrdered(order(sel), rope)

contains(sel, pos) == PosLeq(order(sel).start, pos) /\ PosLeq(pos, order(sel).end)

SelRes(sel, st) == [sel |-> sel, st |-> st]

\* Selection::validate: start, then end; "ok" or "panic".
ValidateEndAfter(s, sel, rope, e) == SelRes(Sel(s.pos, e.pos), e.st)
ValidateStartThen(s, sel, rope) ==
    IF s.st # "ok" THEN SelRes(Sel(s.pos, sel.end), s.st)
    ELSE ValidateEndAfter(s, sel, rope, validate(sel.end, rope))
Selection_validate(sel, rope) == ValidateStartThen(validate(sel.start, rope), sel, rope)

\* ------------------------------------------------------ buffer and history
Insert(pos, text) == [kind |-> "Insert", pos |-> pos, text |-> text]
Delete(pos, text) == [kind |-> "Delete", pos |-> pos, text |-> text]

Buffer(path, name, content, history) ==
    [path |-> path, name |-> name, content |-> content, history |-> history]

BufRes(buf, st) == [buf |-> buf, st |-> st]

\* History::insert_char (through Position::insert_char): Rope::insert_char
\* panics past the end of the rope.
InsertAt(pos, buf, c, at) ==
    IF at > len_chars(buf.content) THEN BufRes(buf, "panic")
    ELSE BufRes([buf EXCEPT !.content = rope_insert(@, at, <<c>>),
                            !.history = Append(@, Insert(pos, <<c>>))], "ok")

insert_char(pos, buf, c) ==
    IF ~CharOfDefined(pos, buf.content) THEN BufRes(buf, "panic")
    ELSE InsertAt(pos, buf, c, char_of(pos, buf.content))

\* History::remove_selection: Rope::slice panics on a range that is reversed
\* or ends past the rope; the edit keeps sel.start as it was passed.
RemoveRange(buf, sel, r) ==
    IF r.a > r.b \/ r.b > len_chars(buf.content) THEN BufRes(buf, "panic")
    ELSE BufRes([buf EXCEPT !.content = rope_remove(@, r.a, r.b),
                            !.history = Append(@, Delete(sel.start,
                                            rope_slice(buf.content, r.a, r.b)))], "ok")

remove_selection(buf, sel) ==
    IF ~CharOfDefined(sel.start, buf.content) \/ ~CharOfDefined(sel.end, buf.content)
    THEN BufRes(buf, "panic")
    ELSE RemoveRange(buf, sel, range_of(sel, buf.content))

\* History::undo: "ok", "NothingLeftToUndo" or "panic"; the edit is popped
\* before the rope is touched.  The Insert arm removes text.len() positions:
\* the bytes of the text.
UndoEditAt(popped, edit, at) ==
    IF edit.kind = "Insert"
    THEN IF at + ByteLen(edit.text) > len_chars(popped.content)
         THEN BufRes(popped, "panic")
         ELSE BufRes([popped EXCEPT !.content = rope_remove(@, at, at + ByteLen(edit.text))],
                     "ok")
    ELSE IF at > len_chars(popped.content)
         THEN BufRes(popped, "panic")
         ELSE BufRes([popped EXCEPT !.content = rope_insert(@, at, edit.text)], "ok")

UndoEdit(popped, edit) ==
    IF ~CharOfDefined(edit.pos, popped.content) THEN BufRes(popped, "panic")
    ELSE UndoEditAt(popped, edit, char_of(edit.pos, popped.content))

History_undo(buf) ==
    IF buf.history = <<>> THEN BufRes(buf, "NothingLeftToUndo")
    ELSE UndoEdit([buf EXCEPT !.history = SubSeq(@, 1, Len(@) - 1)],
                  buf.history[Len(buf.history)])

\* Position::validate_fix: the repairing validator; it inserts a terminator
\* into a buffer that is completely empty.
PosBufRes(pos, buf, st) == [pos |-> pos, buf |-> buf, st |-> st]
FixMoved(r, buf) == PosBufRes(r.pos, buf, r.st)
FixInserted(i) == PosBufRes(file_start, i.buf, i.st)

ValidateFixWith(pos, buf, len) ==
    IF pos.column <= len THEN PosBufRes(pos, buf, "ok")
    ELSE IF len = 0
         THEN IF ~Line_is_first(pos.line)
              THEN FixMoved(move_LineEnd(move_Up(pos, 1).pos, buf.content), buf)
              ELSE FixInserted(insert_char(file_start, buf, NL))
    ELSE FixMoved(LineEndWith(pos, len), buf)

validate_fix(pos, buf) ==
    IF ~LineExists(pos.line, buf.content) THEN PosBufRes(pos, buf, "panic")
    ELSE ValidateFixWith(pos, buf, LineLen(pos.line, buf.content))

SelBufRes(sel, buf, st) == [sel |-> sel, buf |-> buf, st |-> st]

\* Selection::validate_fix: start, then end.
FixEndAfter(s, e) == SelBufRes(Sel(s.pos, e.pos), e.buf, e.st)
FixStartThen(s, sel) ==
    IF s.st # "ok" THEN SelBufRes(Sel(s.pos, sel.end), s.buf, s.st)
    ELSE FixEndAfter(s, validate_fix(sel.end, s.buf))
Selection_validate_fix(sel, buf) == FixStartThen(validate_fix(sel.start, buf), sel)

\* Selection::remove_from: validate, order, remove through the history,
\* collapse onto the start, validate_fix.
RemoveAfterRemoval(o, r) ==
    IF r.st # "ok" THEN SelBufRes(o, r.buf, r.st)
    ELSE Selection_validate_fix(Sel(o.start, o.start), r.buf)
RemoveOrdered(o, buf) == RemoveAfterRemoval(o, remove_selection(buf, o))
RemoveAfterValidate(v, buf) ==
    IF v.st # "ok" THEN SelBufRes(v.sel, buf, v.st) ELSE RemoveOrdered(order(v.sel), buf)
remove_from(sel, buf) == RemoveAfterValidate(Selection_validate(sel, buf.content), buf)

\* ------------------------------------------------------------ editor state
None == <<>>
Some(x) == <<x>>

\* Mode: "Normal", "Insert", "Append", "Command" and Goto { selecting }.
Goto(selecting) == IF selecting THEN "GotoSelecting" ELSE "Goto"
Modes == {"Normal", "Insert", "Append", "Command", Goto(FALSE), Goto(TRUE)}

\* WindowData; a window id is the index of the window in windows, a buffer id
\* the index of the buffer in buffers.
Window(buffer, mode, selections, command) ==
    [buffer |-> buffer, mode |-> mode, selections |-> selections, command |-> command]

\* EditorData::new, with the files of the disk.
NewEditor(fs) ==
    [windows |-> <<Window(1, "Normal", <<Sel(file_start, file_start)>>, <<>>)>>,
     buffers |-> <<Buffer(None, <<"scratch">>, <<NL>>, <<>>)>>,
     open_tabs |-> <<1>>,
     focused_tab |-> 0,
     last_screen_height |-> None,
     pending_message |-> None,
     want_quit |-> FALSE,
     files |-> fs]

FocusedId(S) == S.open_tabs[S.focused_tab + 1]
FocusedWindow(S) == S.windows[FocusedId(S)]
FocusedBuffer(S) == S.buffers[FocusedWindow(S).buffer]

\* The result of the dispatcher: the state it leaves, "ok", "err" or "panic",
\* and the text of the error.
Out(S, st, msg) == [S |-> S, st |-> st, msg |-> msg]

\* Display for MovementError.
ErrText(st) ==
    CASE st = "SelectionEmpty" -> <<"selection is empty">>
      [] st = "NoPrevLine" -> <<"no previous line">>
      [] st = "NoNextLine" -> <<"no next line">>
      [] OTHER -> <<>>

show_message(S, message) == [S EXCEPT !.pending_message = Some(message)]

\* A quit that leaves the flag as it is.
QuitForgets(S) == S

quit(S) == [S EXCEPT !.want_quit = TRUE]

\* ---------------------------------------------------------------- commands
\* shlex::split on a line of plain characters, spaces and double quotes: the
\* words between the spaces outside quotes; a quote opens or closes a quoted
\* stretch of the word it stands in (so "" is an empty word), and a line whose
\* last quote is left open has no split.
Quote == "\""

RECURSIVE ShlexFrom(_, _, _, _, _)
ShlexFrom(line, word, words, inword, quoted) ==
    IF line = <<>> THEN IF inword THEN Append(words, word) ELSE words
    ELSE IF Head(line) = Quote
         THEN ShlexFrom(Tail(line), word, words, TRUE, ~quoted)
    ELSE IF Head(line) = " " /\ ~quoted
         THEN ShlexFrom(Tail(line), <<>>, IF inword THEN Append(words, word) ELSE words,
                        FALSE, FALSE)
    ELSE ShlexFrom(Tail(line), Append(word, Head(line)), words, TRUE, quoted)

shlex(line) == ShlexFrom(line, <<>>, <<>>, FALSE, FALSE)

\* shlex::split returns None: the line ends inside a quoted stretch.
shlex_is_none(line) == Cardinality({i \in 1..Len(line) : line[i] = Quote}) % 2 = 1

\* An open that adds the buffer, the window and the tab and leaves the focus
\* on the tab it was on.
OpenKeepsFocus(S, name, content) ==
    [S EXCEPT !.buffers = Append(@, Buffer(Some(name), name, content, <<>>)),
              !.windows = Append(@, Window(Len(S.buffers) + 1, "Normal",
                                           <<Sel(file_start, file_start)>>, <<>>)),
              !.open_tabs = Append(@, Len(S.windows) + 1)]

\* The body of the command open once the file is read: a new buffer, a new
\* window on it, a new tab that takes the focus.
open_file(S, name, content) ==
    [S EXCEPT !.buffers = Append(@, Buffer(Some(name), name, content, <<>>)),
              !.windows = Append(@, Window(Len(S.buffers) + 1, "Normal",
                                           <<Sel(file_start, file_start)>>, <<>>)),
              !.open_tabs = Append(@, Len(S.windows) + 1),
              !.focused_tab = Len(S.open_tabs)]

\* What the disk holds under the name of a directory: File::open succeeds on
\* it and Rope::from_reader fails to read it.
Directory == <<"directory">>

\* A command open that inserts the buffer before the file is read: an open
\* that fails must not leave the buffers unchanged under it.
OpenInsertsFirst(S, args) ==
    IF args = <<>> THEN Out(S, "panic", <<>>)
    ELSE IF args[1] \notin DOMAIN S.files
         THEN Out([S EXCEPT !.buffers = Append(@, Buffer(Some(args[1]), args[1], <<>>, <<>>))],
                  "err", <<"No such file or directory (os error 2)">>)
    ELSE Out(open_file(S, args[1], S.files[args[1]]), "ok", <<>>)

cmd_open(S, args) ==
    IF args = <<>> THEN Out(S, "panic", <<>>)
    ELSE IF args[1] \notin DOMAIN S.files
         THEN Out(S, "err", <<"No such file or directory (os error 2)">>)
    ELSE IF S.files[args[1]] = Directory
         THEN Out(S, "err", <<"Is a directory (os error 21)">>)
    ELSE Out(open_file(S, args[1], S.files[args[1]]), "ok", <<>>)

\* A write that does not ask for the path: the content goes to the disk and
\* the command succeeds.
WriteWithoutPath(S) ==
    Out([S EXCEPT !.files = [f \in DOMAIN S.files |-> FocusedBuffer(S).content]], "ok", <<>>)

cmd_write(S) ==
    IF FocusedBuffer(S).path = None THEN Out(S, "err", <<"cannot save a scratch buffer">>)
    ELSE Out([S EXCEPT !.files = [f \in DOMAIN S.files |->
                                    IF f = FocusedBuffer(S).path[1]
                                    THEN FocusedBuffer(S).content ELSE S.files[f]]],
             "ok", <<>>)

cmd_quit(S) == Out(quit(S), "ok", <<>>)

\* A lookup that falls back to the first command of the table when no
\* command has the name.
RunUnknownQuits(S, args) ==
    IF args = <<>> THEN Out(S, "err", <<"no command given">>)
    ELSE IF args[1] \in {<<"o", "p", "e", "n">>, <<"e">>} THEN cmd_open(S, Tail(args))
    ELSE IF args[1] \in {<<"w", "r", "i", "t", "e">>, <<"w">>} THEN cmd_write(S)
    ELSE cmd_quit(S)

run_command(S, args) ==
    IF args = <<>> THEN Out(S, "err", <<"no command given">>)
    ELSE IF args[1] \in {<<"q", "u", "i", "t">>, <<"q">>} THEN cmd_quit(S)
    ELSE IF args[1] \in {<<"o", "p", "e", "n">>, <<"e">>} THEN cmd_open(S, Tail(args))
    ELSE IF args[1] \in {<<"w", "r", "i", "t", "e">>, <<"w">>} THEN cmd_write(S)
    ELSE Out(S, "err", <<"command '">> \o args[1] \o <<"' doesn't exist">>)

\* ----------------------------------------------------------------- actions
NoMove == Mv("None", 0)
Act(type, m, c, mode) == [type |-> type, m |-> m, c |-> c, mode |-> mode]
A0(type) == Act(type, NoMove, "", "")
AMove(type, kind, n) == Act(type, Mv(kind, n), "", "")
AChar(type, c) == Act(type, NoMove, c, "")
SwitchToMode(mode) == Act("SwitchToMode", NoMove, "", mode)

SelectionActions ==
    {"InsertAtSelectionStart", "InsertAtSelectionEnd", "Delete", "Move", "ShiftStart",
     "ShiftEnd", "ScrollPageUp", "ScrollPageDown", "ScrollHalfPageUp",
     "ScrollHalfPageDown", "OrderSelections"}

ScrollMovement(type, height) ==
    CASE type = "ScrollPageUp" -> Mv("Up", height)
      [] type = "ScrollPageDown" -> Mv("Down", height)
      [] type = "ScrollHalfPageUp" -> Mv("Up", height \div 2)
      [] type = "ScrollHalfPageDown" -> Mv("Down", height \div 2)

\* The arms of the loop of do_action over the selections.  A movement that
\* fails leaves the position where the failure met it and the rest of the arm
\* undone.
ArmInserted(sel, r) == SelBufRes(sel, r.buf, r.st)
ArmMoved(sel, buf, r) ==
    SelBufRes(Sel(IF r.st = "ok" THEN r.pos ELSE sel.start, r.pos), buf, r.st)
ArmShiftedStart(sel, buf, r) == SelBufRes(Sel(r.pos, sel.end), buf, r.st)
ArmShiftedEnd(sel, buf, r) == SelBufRes(Sel(sel.start, r.pos), buf, r.st)

SelectionArm(sel, buf, a, height) ==
    CASE a.type = "InsertAtSelectionStart" -> ArmInserted(sel, insert_char(sel.start, buf, a.c))
      [] a.type = "InsertAtSelectionEnd" -> ArmInserted(sel, insert_char(sel.end, buf, a.c))
      [] a.type = "Delete" -> remove_from(sel, buf)
      [] a.type = "Move" -> ArmMoved(sel, buf, move_to(sel.end, buf.content, a.m))
      [] a.type = "ShiftStart" -> ArmShiftedStart(sel, buf, move_to(sel.start, buf.content, a.m))
      [] a.type = "ShiftEnd" -> ArmShiftedEnd(sel, buf, move_to(sel.end, buf.content, a.m))
      [] a.type = "OrderSelections" -> SelBufRes(order(sel), buf, "ok")
      [] OTHER -> IF height = None THEN SelBufRes(sel, buf, "ok")
                  ELSE ArmMoved(sel, buf, move_to(sel.end, buf.content,
                                                  ScrollMovement(a.type, height[1])))

SelsRes(sels, buf, st) == [sels |-> sels, buf |-> buf, st |-> st]

RECURSIVE SelectionLoop(_, _, _, _, _)
LoopAfterArm(sels, r, a, height, i) ==
    IF r.st # "ok" THEN SelsRes([sels EXCEPT ![i] = r.sel], r.buf, r.st)
    ELSE SelectionLoop([sels EXCEPT ![i] = r.sel], r.buf, a, height, i + 1)
SelectionLoop(sels, buf, a, height, i) ==
    IF i > Len(sels) THEN SelsRes(sels, buf, "ok")
    ELSE LoopAfterArm(sels, SelectionArm(sels[i], buf, a, height), a, height, i)

\* The selections and the buffer of the window are stored as the loop left
\* them, whether it ended or returned an error.
StoreLoop(S, window_id, r) ==
    Out([S EXCEPT !.windows[window_id].selections = r.sels,
                  !.buffers[S.windows[window_id].buffer] = r.buf],
        IF r.st = "ok" \/ Panicked(r.st) THEN r.st ELSE "err", ErrText(r.st))

WindowSelections(S, a) ==
    StoreLoop(S, FocusedId(S),
              SelectionLoop(FocusedWindow(S).selections, FocusedBuffer(S), a,
                            S.last_screen_height, 1))

\* The loop of undo over the selections of the focused window:
\* Selection::validate of each against the content after the undo.
RECURSIVE ValidateLoop(_, _, _)
ValidateLoopAfter(sels, rope, i, v) ==
    IF v.st # "ok" THEN [sels |-> [sels EXCEPT ![i] = v.sel], st |-> v.st]
    ELSE ValidateLoop([sels EXCEPT ![i] = v.sel], rope, i + 1)
ValidateLoop(sels, rope, i) ==
    IF i > Len(sels) THEN [sels |-> sels, st |-> "ok"]
    ELSE ValidateLoopAfter(sels, rope, i, Selection_validate(sels[i], rope))

UndoValidated(S, v) ==
    Out([S EXCEPT !.windows[FocusedId(S)].selections = v.sels], v.st, <<>>)

\* An undo that returns the empty history to the dispatcher as an error: the
\* report of an Undo with nothing left must not hold of it.
UndoReturnsError(S, buffer_id, r) ==
    IF r.st = "NothingLeftToUndo" THEN Out(S, "err", <<"nothing left to undo">>)
    ELSE IF r.st = "panic" THEN Out(S, "panic", <<>>)
    ELSE UndoValidated([S EXCEPT !.buffers[buffer_id] = r.buf],
                       ValidateLoop(FocusedWindow(S).selections, r.buf.content, 1))

UndoAfterHistory(S, buffer_id, r) ==
    IF r.st = "NothingLeftToUndo"
    THEN Out(show_message(S, <<"nothing left to undo">>), "ok", <<>>)
    ELSE IF r.st = "panic" THEN Out(S, "panic", <<>>)
    ELSE UndoValidated([S EXCEPT !.buffers[buffer_id] = r.buf],
                       ValidateLoop(FocusedWindow(S).selections, r.buf.content, 1))

undo(S, window_id) ==
    UndoAfterHistory(S, S.windows[window_id].buffer,
                     History_undo(S.buffers[S.windows[window_id].buffer]))

\* todo!()
redo(S, window_id) == Out(S, "panic", <<>>)

\* 2^e modulo n, for usize::MAX % n.
RECURSIVE PowMod(_, _, _)
PowMod(b, e, n) == IF e = 0 THEN 1 % n ELSE (b * PowMod(b, e - 1, n)) % n
UsizeMaxMod(n) == (PowMod(2, 64, n) + n - 1) % n

\* focused_tab - 1 on the first tab: a panic in a build with overflow checks,
\* a wrap to usize::MAX in a build without.
PreviousTab(S, checks) ==
    IF S.focused_tab = 0
    THEN IF checks THEN Out(S, "panic", <<>>)
         ELSE Out([S EXCEPT !.focused_tab = UsizeMaxMod(Len(S.open_tabs))], "ok", <<>>)
    ELSE Out([S EXCEPT !.focused_tab = (S.focused_tab - 1) % Len(S.open_tabs)], "ok", <<>>)

\* A NextTab that empties the command line of the window it leaves.
NextTabClears(S) ==
    Out([S EXCEPT !.focused_tab = (S.focused_tab + 1) % Len(S.open_tabs),
                  !.windows[FocusedId(S)].command = <<>>], "ok", <<>>)

NextTab(S) == Out([S EXCEPT !.focused_tab = (S.focused_tab + 1) % Len(S.open_tabs)], "ok", <<>>)

\* CommandAction::Return: the command line is taken and the mode is Normal
\* before the command runs.
\* A Return that reads the command line and leaves it, and the mode, in
\* place.
ReturnKeepsLine(S) ==
    IF shlex_is_none(FocusedWindow(S).command)
    THEN Out(S, "err", <<"failed to parse command '">> \o FocusedWindow(S).command \o <<"'">>)
    ELSE run_command(S, shlex(FocusedWindow(S).command))

ReturnTaken(S) ==
    [S EXCEPT !.windows[FocusedId(S)].command = <<>>,
              !.windows[FocusedId(S)].mode = "Normal"]

Command_Return(S) ==
    IF shlex_is_none(FocusedWindow(S).command)
    THEN Out(ReturnTaken(S), "err",
             <<"failed to parse command '">> \o FocusedWindow(S).command \o <<"'">>)
    ELSE run_command(ReturnTaken(S), shlex(FocusedWindow(S).command))

\* A Backspace that leaves Command mode whatever the command line holds.
BackspaceLeaves(S) == Out([S EXCEPT !.windows[FocusedId(S)].mode = "Normal"], "ok", <<>>)

Command_Backspace(S) ==
    IF FocusedWindow(S).command = <<>>
    THEN Out([S EXCEPT !.windows[FocusedId(S)].mode = "Normal"], "ok", <<>>)
    ELSE Out([S EXCEPT !.windows[FocusedId(S)].command = SubSeq(@, 1, Len(@) - 1)], "ok", <<>>)

do_action(S, a, checks) ==
    CASE a.type = "PreviousTab" -> PreviousTab(S, checks)
      [] a.type = "NextTab" -> NextTab(S)
      [] a.type = "Undo" -> undo(S, FocusedId(S))
      [] a.type = "Redo" -> redo(S, FocusedId(S))
      [] a.type \in SelectionActions -> WindowSelections(S, a)
      [] a.type = "SwitchToMode" ->
            Out([S EXCEPT !.windows[FocusedId(S)].mode = a.mode], "ok", <<>>)
      [] a.type = "Character" ->
            Out([S EXCEPT !.windows[FocusedId(S)].command = Append(@, a.c)], "ok", <<>>)
      [] a.type = "Clear" ->
            Out([S EXCEPT !.windows[FocusedId(S)].command = <<>>], "ok", <<>>)
      [] a.type = "Tab" -> Out(S, "ok", <<>>)
      [] a.type = "Return" -> Command_Return(S)
      [] a.type = "Backspace" -> Command_Backspace(S)

\* -------------------------------------------------------------- key events
Key(kind, c) == [kind |-> kind, c |-> c]
Char(c) == Key("Char", c)

\* The bindings common to the modes Normal, Insert and Append.
CommonActions(key) ==
    CASE key.kind = "Left" -> <<AMove("Move", "Left", 1)>>
      [] key.kind = "Down" -> <<AMove("Move", "Down", 1)>>
      [] key.kind = "Up" -> <<AMove("Move", "Up", 1)>>
      [] key.kind = "Right" -> <<AMove("Move", "Right", 1)>>
      [] key.kind = "CtrlU" -> <<A0("ScrollHalfPageUp")>>
      [] key.kind = "CtrlD" -> <<A0("ScrollHalfPageDown")>>
      [] key.kind \in {"CtrlB", "PageUp"} -> <<A0("ScrollPageUp")>>
      [] key.kind \in {"CtrlF", "PageDown"} -> <<A0("ScrollPageDown")>>
      [] key.kind = "CtrlP" -> <<A0("PreviousTab")>>
      [] key.kind = "CtrlN" -> <<A0("NextTab")>>
      [] key.kind = "ShiftLeft" -> <<AMove("ShiftEnd", "Left", 1)>>
      [] key.kind = "ShiftDown" -> <<AMove("ShiftEnd", "Down", 1)>>
      [] key.kind = "ShiftUp" -> <<AMove("ShiftEnd", "Up", 1)>>
      [] key.kind = "ShiftRight" -> <<AMove("ShiftEnd", "Right", 1)>>
      [] OTHER -> <<>>

NormalActions(key) ==
    IF key.kind # "Char" THEN <<>>
    ELSE CASE key.c = "i" -> <<A0("OrderSelections"), SwitchToMode("Insert")>>
           [] key.c = "c" -> <<A0("Delete"), SwitchToMode("Insert")>>
           [] key.c = "a" -> <<A0("OrderSelections"), SwitchToMode("Append")>>
           [] key.c = "A" -> <<AMove("Move", "LineEnd", 0), SwitchToMode("Insert")>>
           [] key.c = "o" -> <<AMove("Move", "LineEnd", 0), AChar("InsertAtSelectionEnd", NL),
                               AMove("Move", "Down", 1), AMove("Move", "LineStart", 0),
                               SwitchToMode("Insert")>>
           [] key.c = "g" -> <<SwitchToMode(Goto(FALSE))>>
           [] key.c = "G" -> <<SwitchToMode(Goto(TRUE))>>
           [] key.c = ":" -> <<SwitchToMode("Command")>>
           [] key.c = "h" -> <<AMove("Move", "Left", 1)>>
           [] key.c = "j" -> <<AMove("Move", "Down", 1)>>
           [] key.c = "k" -> <<AMove("Move", "Up", 1)>>
           [] key.c = "l" -> <<AMove("Move", "Right", 1)>>
           [] key.c = "H" -> <<AMove("ShiftEnd", "Left", 1)>>
           [] key.c = "J" -> <<AMove("ShiftEnd", "Down", 1)>>
           [] key.c = "K" -> <<AMove("ShiftEnd", "Up", 1)>>
           [] key.c = "L" -> <<AMove("ShiftEnd", "Right", 1)>>
           [] key.c = "d" -> <<A0("Delete")>>
           [] key.c = "u" -> <<A0("Undo")>>
           [] key.c = "U" -> <<A0("Redo")>>
           [] OTHER -> <<>>

GotoWrapper(mode) == IF mode = Goto(TRUE) THEN "ShiftEnd" ELSE "Move"

GotoActions(mode, key) ==
    (IF key.kind # "Char" THEN <<>>
     ELSE CASE key.c = "h" -> <<AMove(GotoWrapper(mode), "LineStart", 0)>>
            [] key.c = "j" -> <<AMove(GotoWrapper(mode), "FileEnd", 0)>>
            [] key.c = "k" -> <<AMove(GotoWrapper(mode), "FileStart", 0)>>
            [] key.c = "l" -> <<AMove(GotoWrapper(mode), "LineEnd", 0)>>
            [] OTHER -> <<>>)
    \o <<SwitchToMode("Normal")>>

\* Bindings of Insert and Append whose Esc opens the command line: the
\* transitions of the modes must not hold of them.
EscToCommand(mode, key) ==
    IF key.kind = "Esc" THEN <<SwitchToMode("Command")>> ELSE <<>>

InsertAppendActions(mode, key) ==
    CASE key.kind = "Esc" -> <<SwitchToMode("Normal")>>
      [] key.kind = "Char" /\ mode = "Insert" ->
            <<AChar("InsertAtSelectionStart", key.c), AMove("ShiftStart", "Right", 1),
              AMove("ShiftEnd", "Right", 1)>>
      [] key.kind = "Char" /\ mode = "Append" ->
            <<AMove("ShiftEnd", "Right", 1), AChar("InsertAtSelectionEnd", key.c)>>
      [] key.kind = "Backspace" -> <<AMove("Move", "Left", 1), A0("Delete")>>
      [] OTHER -> <<>>

CommandActions(key) ==
    CASE key.kind = "Esc" -> <<A0("Clear"), SwitchToMode("Normal")>>
      [] key.kind = "Char" /\ key.c = "\t" -> <<A0("Tab")>>
      [] key.kind = "Char" /\ key.c = NL -> <<A0("Return")>>
      [] key.kind = "Char" -> <<AChar("Character", key.c)>>
      [] key.kind = "Backspace" -> <<A0("Backspace")>>
      [] OTHER -> <<>>

\* The actions handle_event collects for a key in a mode.
KeyActions(mode, key) ==
    CASE mode = "Normal" -> CommonActions(key) \o NormalActions(key)
      [] mode \in {"Insert", "Append"} -> CommonActions(key) \o InsertAppendActions(mode, key)
      [] mode = "Command" -> CommandActions(key)
      [] OTHER -> GotoActions(mode, key)

\* try_for_each over the actions from the i-th on: the first action that
\* does not return Ok ends it; applied counts the actions that returned Ok.
RunRes(S, st, msg, applied) == [S |-> S, st |-> st, msg |-> msg, applied |-> applied]

RECURSIVE RunActions(_, _, _, _)
\* A try_for_each that applies the later actions after an error and still
\* reports the error: the abort of the sequence must not hold of it.
RunKeepsGoing(r, actions, checks, i) ==
    IF r.st = "err"
    THEN RunRes(RunActions(r.S, actions, checks, i + 1).S, r.st, r.msg, i - 1)
    ELSE IF r.st # "ok" THEN RunRes(r.S, r.st, r.msg, i - 1)
    ELSE RunActions(r.S, actions, checks, i + 1)

RunAfterAction(r, actions, checks, i) ==
    IF r.st # "ok" THEN RunRes(r.S, r.st, r.msg, i - 1)
    ELSE RunActions(r.S, actions, checks, i + 1)
RunActions(S, actions, checks, i) ==
    IF i > Len(actions) THEN RunRes(S, "ok", <<>>, Len(actions))
    ELSE RunAfterAction(do_action(S, actions[i], checks), actions, checks, i)

\* The error of the sequence becomes the pending message.
Pending(r) == IF r.st = "err" THEN [r EXCEPT !.S = show_message(r.S, r.msg)] ELSE r

handle_event(S, key, checks) ==
    Pending(RunActions(S, KeyActions(FocusedWindow(S).mode, key), checks, 1))

\* What draw_status writes on the status line: the pending message when there
\* is one, the mode of the focused window otherwise.
status_line(S) ==
    IF S.pending_message # None THEN <<"message", S.pending_message[1]>>
    ELSE <<"mode", FocusedWindow(S).mode>>

\* A draw whose status line reads the pending message and leaves it pending.
DrawKeepsMessage(S) == [S EXCEPT !.last_screen_height = Some(ScreenHeight)]

\* draw: the height of the window region is stored and draw_status takes the
\* pending message.
draw(S) == [S EXCEPT !.last_screen_height = Some(ScreenHeight), !.pending_message = None]

\* ------------------------------------------------------------------- state
\* The fields of EditorData, the files of the disk, whether the process has
\* panicked, and ev, the record of the last event: its actions, how many of
\* them returned Ok, how the sequence ended, and, for an event that
\* edits (it holds an insertion or Delete), the content and the selections of
\* the focused window before it.
VARIABLES windows, buffers, open_tabs, focused_tab, last_screen_height,
          pending_message, want_quit, files, crashed, ev,
          inputs, signals, produced, handled

vars == <<windows, buffers, open_tabs, focused_tab, last_screen_height,
          pending_message, want_quit, files, crashed, ev,
          inputs, signals, produced, handled>>

\* The channels of State: the key events and the signals sent and not yet
\* received.  produced is the record of the key events the input thread has
\* sent, handled the record of the key events the main loop has handled.
channels == <<inputs, signals, produced, handled>>

State ==
    [windows |-> windows, buffers |-> buffers, open_tabs |-> open_tabs,
     focused_tab |-> focused_tab, last_screen_height |-> last_screen_height,
     pending_message |-> pending_message, want_quit |-> want_quit, files |-> files]

Becomes(S) ==
    /\ windows' = S.windows
    /\ buffers' = S.buffers
    /\ open_tabs' = S.open_tabs
    /\ focused_tab' = S.focused_tab
    /\ last_screen_height' = S.last_screen_height
    /\ pending_message' = S.pending_message
    /\ want_quit' = S.want_quit
    /\ files' = S.files

Starts(S) ==
    /\ windows = S.windows
    /\ buffers = S.buffers
    /\ open_tabs = S.open_tabs
    /\ focused_tab = S.focused_tab
    /\ last_screen_height = S.last_screen_height
    /\ pending_message = S.pending_message
    /\ want_quit = S.want_quit
    /\ files = S.files
    /\ inputs = <<>> /\ signals = 0
    /\ produced = <<>> /\ handled = <<>>

Inserts(actions) ==
    \E i \in 1..Len(actions) :
        actions[i].type \in {"InsertAtSelectionStart", "InsertAtSelectionEnd"}
Edits(actions) == Inserts(actions) \/ \E i \in 1..Len(actions) : actions[i].type = "Delete"
Types(actions) == \E i \in 1..Len(actions) : actions[i].type = "Character"

Event(actions, applied, st, S) ==
    [actions |-> actions, applied |-> applied, st |-> st,
     content |-> IF Edits(actions) THEN FocusedBuffer(S).content ELSE None,
     selections |-> IF Edits(actions) THEN FocusedWindow(S).selections ELSE None]

NoEvent(S) == Event(<<>>, 0, "ok", S)

Init ==
    /\ Starts(NewEditor(<<>>))
    /\ crashed = FALSE
    /\ ev = NoEvent(NewEditor(<<>>))

\* ------------------------------------------------------------------ inputs
\* The characters an insertion is dispatched with, the characters typed in
\* Insert and Append mode, and the characters typed on the command line.
TypeChars == {"a", NL, Wide}
KeyChars == {"a", NL}
CmdChars == {"q"}

KeysIn(mode) ==
    CASE mode = "Normal" ->
            {Char(c) : c \in {"i", "c", "a", "A", "o", "g", "G", ":", "h", "j", "k", "l",
                              "H", "J", "K", "L", "d", "u", "U"}}
            \cup {Key(k, "") : k \in {"CtrlU", "CtrlD", "CtrlB", "CtrlF", "CtrlP", "CtrlN"}}
      [] mode \in {"Insert", "Append"} ->
            {Char(c) : c \in KeyChars}
            \cup {Key(k, "") : k \in {"Esc", "Backspace", "Left", "Right", "ShiftLeft"}}
      [] mode = "Command" ->
            {Char(c) : c \in CmdChars \cup {NL, "\t"}} \cup {Key(k, "") : k \in {"Esc", "Backspace"}}
      [] OTHER -> {Char(c) : c \in {"h", "j", "k", "l", "x"}}

\* The bounds of the exploration.
WithinBounds(S, actions) ==
    /\ Inserts(actions) => len_chars(FocusedBuffer(S).content) < MaxLen
    /\ Edits(actions) => Len(FocusedBuffer(S).history) < MaxHist
    /\ Types(actions) => Len(FocusedWindow(S).command) < MaxCmd

\* The state and the record of the event after a turn of the main loop.
Outcome(r, actions, S) ==
    /\ Becomes(r.S)
    /\ crashed' = Panicked(r.st)
    /\ ev' = Event(actions, r.applied, r.st, S)

\* The same of a turn taken with the channels out of the picture.
Lands(r, actions, S) ==
    /\ Outcome(r, actions, S)
    /\ UNCHANGED channels

\* One turn of the main loop: draw, then handle_event on the next key.
KeyEvent(key, checks) ==
    /\ ~crashed
    /\ ~want_quit
    /\ WithinBounds(State, KeyActions(FocusedWindow(State).mode, key))
    /\ Lands(handle_event(draw(State), key, checks),
             KeyActions(FocusedWindow(State).mode, key), State)

\* Whether the build has overflow checks matters to Ctrl-p only.
Builds(key) == IF key.kind = "CtrlP" THEN BOOLEAN ELSE {TRUE}

InMode(mode) == FocusedWindow(State).mode = mode

NormalKey ==
    /\ InMode("Normal")
    /\ \E key \in KeysIn("Normal") : \E checks \in Builds(key) : KeyEvent(key, checks)

InsertKey ==
    /\ InMode("Insert")
    /\ \E key \in KeysIn("Insert") : KeyEvent(key, TRUE)

AppendKey ==
    /\ InMode("Append")
    /\ \E key \in KeysIn("Append") : KeyEvent(key, TRUE)

GotoKey ==
    /\ InMode(Goto(FALSE)) \/ InMode(Goto(TRUE))
    /\ \E key \in KeysIn(Goto(FALSE)) : KeyEvent(key, TRUE)

CommandKey ==
    /\ InMode("Command")
    /\ \E key \in KeysIn("Command") : KeyEvent(key, TRUE)

Next == NormalKey \/ InsertKey \/ AppendKey \/ GotoKey \/ CommandKey

\* The editor from its construction, under every sequence of keys.
Spec == Init /\ [][Next]_vars

\* --------------------------------------------------- an opened document
\* The documents: every text of at most MaxLen characters over "a" and the
\* terminator, and the document of the worked example of the specification.
RECURSIVE Texts(_)
Texts(n) ==
    IF n = 0 THEN {<<>>}
    ELSE Texts(n - 1) \cup {Append(t, c) : t \in {u \in Texts(n - 1) : Len(u) = n - 1},
                                           c \in {"a", NL}}

ExampleDoc == <<"a", "b", NL, "c", "d", NL>>
Docs == Texts(MaxLen) \cup {ExampleDoc}
DocName == <<"f">>

\* The editor after the command open on a file that holds a document.
Opened(doc) == cmd_open(draw(NewEditor([n \in {DocName} |-> doc])), <<DocName>>).S

\* The selections a window on a document can hold after shifts of its ends:
\* both ends on characters of the document, in either order; the selection
\* of a new window.
ValidPositions(doc) ==
    {p \in {Pos(l, c) : l \in 1..len_lines(doc), c \in 1..Len(doc)} : is_valid(p, doc)}
DocSelections(doc) ==
    {Sel(file_start, file_start)} \cup {Sel(s, e) : s \in ValidPositions(doc),
                                                    e \in ValidPositions(doc)}

Placed(S, sel) == [S EXCEPT !.windows[FocusedId(S)].selections = <<sel>>]

InitDoc ==
    /\ \E doc \in Docs : \E sel \in DocSelections(doc) : Starts(Placed(Opened(doc), sel))
    /\ crashed = FALSE
    /\ ev = NoEvent(State)

MovementKinds ==
    {"Left", "Right", "Up", "Down", "LineStart", "LineEnd", "FileStart", "FileEnd"}
Counted == {"Left", "Right", "Up", "Down"}

\* The actions of a binding applied as handle_event applies them.
Dispatch(actions) ==
    Lands(Pending(RunActions(State, actions, TRUE, 1)), actions, State)

DispatchMove ==
    /\ ~crashed
    /\ \E kind \in MovementKinds : \E n \in 0..MaxCount :
          /\ kind \notin Counted => n = 0
          /\ Dispatch(<<AMove("Move", kind, n)>>)

DispatchDelete ==
    /\ ~crashed
    /\ Len(FocusedBuffer(State).history) < MaxHist
    /\ Dispatch(<<A0("Delete")>>)

DispatchInsert ==
    /\ ~crashed
    /\ Len(FocusedBuffer(State).history) < MaxHist
    /\ len_chars(FocusedBuffer(State).content) < MaxLen
    /\ \E c \in TypeChars : \E mode \in {"Insert", "Append"} :
          Dispatch(InsertAppendActions(mode, Char(c)))

DispatchUndo ==
    /\ ~crashed
    /\ Dispatch(<<A0("Undo")>>)

NextDoc == DispatchMove \/ DispatchDelete \/ DispatchUndo

\* The dispatcher on a window that shows an opened document: movements,
\* Delete and Undo.
SpecDoc == InitDoc /\ [][NextDoc]_vars

NextEdit == DispatchInsert \/ DispatchDelete \/ DispatchUndo

\* The dispatcher on a window that shows an opened document: insertions,
\* Delete and Undo.
SpecEdit == InitDoc /\ [][NextEdit]_vars

\* The dispatcher on a window that shows an opened document: movements only.
SpecMove == InitDoc /\ [][DispatchMove]_vars

\* The dispatcher on a window that shows the example document, opened with
\* its selection at 1:1: movements, Delete and Undo.
InitExample ==
    /\ Starts(Opened(ExampleDoc))
    /\ crashed = FALSE
    /\ ev = NoEvent(State)

SpecExample == InitExample /\ [][NextDoc]_vars

\* ------------------------------------------------- the command line
\* A disk with a file and a directory; the characters of the command lines
\* "e f", "e d" and "e e" (the file, the directory, a path that does not
\* exist), of the command line "w" and of the lines with a quote.
FileName == <<"f">>
DirName == <<"d">>
Disk == [n \in {FileName, DirName} |-> IF n = FileName THEN <<"a", NL>> ELSE Directory]
LineChars == {"e", " ", "f", "d", "w", Quote}

InitCmd ==
    /\ Starts(NewEditor(Disk))
    /\ crashed = FALSE
    /\ ev = NoEvent(NewEditor(Disk))

\* One turn of the main loop whose event is a sequence of actions: draw,
\* then the actions as handle_event applies them.
Turn(actions) ==
    Lands(Pending(RunActions(draw(State), actions, TRUE, 1)), actions, State)

\* The dispatcher takes a command-line action in whatever mode the focused
\* window is in.
DispatchCommand ==
    /\ ~crashed
    /\ \E a \in {A0("Clear"), A0("Tab"), A0("Backspace")}
                \cup {AChar("Character", c) : c \in LineChars} :
          /\ a.type = "Character" => Len(FocusedWindow(State).command) < MaxLine
          /\ Turn(<<a>>)

DispatchReturn ==
    /\ ~crashed
    /\ Len(do_action(State, A0("Return"), TRUE).S.open_tabs) <= MaxTabs
    /\ Turn(<<A0("Return")>>)

DispatchMode ==
    /\ ~crashed
    /\ \E mode \in Modes : Turn(<<SwitchToMode(mode)>>)

\* ------------------------------------------------- keys with a wide character
\* The keys i, u and Esc, the Return key and the key of a character of two
\* bytes, on the scratch buffer.
WideKeys == {Char("i"), Char("u"), Char(NL), Char(Wide), Key("Esc", "")}

WideKey ==
    /\ \E key \in WideKeys : KeyEvent(key, TRUE)

\* The main loop under the keys of WideKeys.
SpecWide == Init /\ [][WideKey]_vars

\* ------------------------------------------------- the threads
\* The number of key events the input thread sends and of signals that wait
\* in their channel.
MaxKeys == 3
MaxSignals == 2

\* The keys the input thread sends.
LoopKeys == {Char("i"), Char("a"), Char("l"), Char("d"), Key("Esc", "")}

\* A handler of SIGWINCH that also sets the mode of the focused window.
SignalResetsMode(S) == [draw(S) EXCEPT !.windows[FocusedId(S)].mode = "Normal"]

\* handle_signal on SIGWINCH: a draw.
handle_signal(S) == draw(S)

\* The input thread sends the next event of the terminal.
InputThread ==
    /\ ~crashed
    /\ Len(produced) < MaxKeys
    /\ \E key \in LoopKeys :
          /\ inputs' = Append(inputs, key)
          /\ produced' = Append(produced, key)
    /\ UNCHANGED <<windows, buffers, open_tabs, focused_tab, last_screen_height,
                   pending_message, want_quit, files, crashed, ev, signals, handled>>

\* The signal thread sends a SIGWINCH.
SignalThread ==
    /\ ~crashed
    /\ signals < MaxSignals
    /\ signals' = signals + 1
    /\ UNCHANGED <<windows, buffers, open_tabs, focused_tab, last_screen_height,
                   pending_message, want_quit, files, crashed, ev, inputs, produced,
                   handled>>

\* A turn of the main loop whose select receives a key event.
ReceiveInput ==
    /\ ~crashed
    /\ ~want_quit
    /\ inputs # <<>>
    /\ Outcome(handle_event(draw(State), Head(inputs), TRUE),
               KeyActions(FocusedWindow(State).mode, Head(inputs)), State)
    /\ inputs' = Tail(inputs)
    /\ handled' = Append(handled, Head(inputs))
    /\ UNCHANGED <<signals, produced>>

\* A turn of the main loop whose select receives a signal.
ReceiveSignal ==
    /\ ~crashed
    /\ ~want_quit
    /\ signals > 0
    /\ Becomes(handle_signal(draw(State)))
    /\ signals' = signals - 1
    /\ UNCHANGED <<crashed, ev, inputs, produced, handled>>

NextLoop == InputThread \/ SignalThread \/ ReceiveInput \/ ReceiveSignal

\* The main loop and the two threads that feed its channels.
SpecLoop == Init /\ [][NextLoop]_vars


\* The editor with the scratch window and the window of an opened document:
\* the document as opened or after a Delete, the focus on either tab, a
\* command line typed in the focused window.
ActLines == {<<>>, <<"q">>, <<"w">>, <<"e", " ", "f">>}

Typed(S, tab, line) ==
    [S EXCEPT !.focused_tab = tab, !.windows[S.open_tabs[tab + 1]].command = line]

AfterDelete(r, tab, line) == r.st = "ok" /\ Starts(Typed(r.S, tab, line))

InitAct ==
    /\ \E doc \in Docs : \E sel \in DocSelections(doc) : \E tab \in {0, 1} :
       \E line \in ActLines :
          \/ Starts(Typed(Placed(Opened(doc), sel), tab, line))
          \/ AfterDelete(do_action(Placed(Opened(doc), sel), A0("Delete"), TRUE), tab, line)
    /\ crashed = FALSE
    /\ ev = NoEvent(State)

\* One call of do_action on the editor as InitAct leaves it.
Fresh == ev.actions = <<>>
Apply(a, checks) == Lands(Pending(RunActions(State, <<a>>, checks, 1)), <<a>>, State)

ApplyTab ==
    /\ Fresh
    /\ \/ Apply(A0("NextTab"), TRUE)
       \/ \E checks \in BOOLEAN : Apply(A0("PreviousTab"), checks)

ApplyBuffer ==
    /\ Fresh
    /\ \E type \in {"Undo", "Redo"} : Apply(A0(type), TRUE)

ApplyWindow ==
    /\ Fresh
    /\ \/ \E type \in {"InsertAtSelectionStart", "InsertAtSelectionEnd"} :
             \E c \in TypeChars : Apply(AChar(type, c), TRUE)
       \/ \E type \in {"Move", "ShiftStart", "ShiftEnd"} : \E kind \in MovementKinds :
             Apply(AMove(type, kind, IF kind \in Counted THEN 1 ELSE 0), TRUE)
       \/ \E type \in {"Delete", "OrderSelections", "ScrollPageUp", "ScrollPageDown",
                        "ScrollHalfPageUp", "ScrollHalfPageDown"} : Apply(A0(type), TRUE)
       \/ \E mode \in Modes : Apply(SwitchToMode(mode), TRUE)

ApplyCommand ==
    /\ Fresh
    /\ \/ \E type \in {"Clear", "Tab", "Return", "Backspace"} : Apply(A0(type), TRUE)
       \/ Apply(AChar("Character", "q"), TRUE)

NextAct == ApplyTab \/ ApplyBuffer \/ ApplyWindow \/ ApplyCommand

\* do_action called once, with each action, on an editor of two windows.
SpecAct == InitAct /\ [][NextAct]_vars

\* The keys g and G of Normal mode and the key that follows them, on a window
\* that shows an opened document.
EnterGoto ==
    /\ InMode("Normal")
    /\ \E key \in {Char("g"), Char("G")} : KeyEvent(key, TRUE)

NextGoto == EnterGoto \/ GotoKey

SpecGoto == InitDoc /\ [][NextGoto]_vars

NextCmd == DispatchCommand \/ DispatchReturn \/ DispatchMode

\* The dispatcher under command-line actions and switches of mode.
SpecCmd == InitCmd /\ [][NextCmd]_vars

\* ------------------------------------------------------------------ claims
Content == FocusedBuffer(State).content
History == FocusedBuffer(State).history
Selections == FocusedWindow(State).selections

EndsValid(sel, rope) ==
    /\ LineExists(sel.start.line, rope) /\ is_valid(sel.start, rope)
    /\ LineExists(sel.end.line, rope) /\ is_valid(sel.end, rope)

AllValid(sels, rope) == \A i \in 1..Len(sels) : EndsValid(sels[i], rope)

IsDelete(e) == e.actions = <<A0("Delete")>>
IsUndo(e) == e.actions = <<A0("Undo")>>
IsInsert(e) ==
    \E c \in TypeChars : \E mode \in {"Insert", "Append"} :
        e.actions = InsertAppendActions(mode, Char(c))

\* C1: a Delete and then one Undo leave the content of the buffer as it was
\* before the Delete and the start and the end of the selection as they were
\* before the Delete.
C1_DeleteUndoRestores ==
    [][(IsDelete(ev) /\ IsUndo(ev'))
        => /\ ~crashed'
           /\ Content' = ev.content
           /\ Selections' = ev.selections]_vars

\* C2: the insertion of a character at the selection, with the shifts of the
\* cursor of its binding, and then one Undo leave the content of the buffer
\* as it was before the insertion and both ends of the selection valid.
C2_InsertUndoRestores ==
    [][(IsInsert(ev) /\ IsUndo(ev'))
        => /\ ~crashed'
           /\ Content' = ev.content
           /\ AllValid(Selections', Content')]_vars

\* The content with an edit of the history reverted: the inserted characters
\* removed, or the deleted text put back, at the position of the edit.
RevertedAt(rope, edit, at) ==
    IF edit.kind = "Insert" THEN rope_remove(rope, at, at + Len(edit.text))
    ELSE rope_insert(rope, at, edit.text)
Reverted(rope, edit) == RevertedAt(rope, edit, char_of(edit.pos, rope))

\* C3: from a buffer of content T0 and an empty history, after insertions and
\* Deletes, no Undo fails, an Undo of a history that is not empty pops the
\* last edit and reverts it, and once Undo has emptied the history the
\* content is T0.
C3_UndoRevertsToOrigin ==
    [][IsUndo(ev')
        => /\ ~crashed'
           /\ History # <<>>
                => /\ History' = SubSeq(History, 1, Len(History) - 1)
                   /\ Content' = Reverted(Content, History[Len(History)])
           /\ (History # <<>> /\ History' = <<>>) => Content' = files[DocName]]_vars

\* C4: from the initial state of the editor no sequence of keys reaches the
\* failing branch of Position::validate, the validation of a selection
\* against a content that is empty.
C4_ValidateNeverFails == ev.st # "SelectionEmpty"

IsMove(e) == Len(e.actions) = 1 /\ e.actions[1].type = "Move"
Vertical == {"Up", "Down"}
EndOf(sels) == sels[1].end
PosValid(pos, rope) == LineExists(pos.line, rope) /\ is_valid(pos, rope)

\* C5, as the specification states it: a movement of a valid position that
\* succeeds leaves a position that is valid against the same text.
C5_MoveKeepsValid_Original ==
    [][(IsMove(ev') /\ ev'.st = "ok" /\ PosValid(EndOf(Selections), Content))
        => PosValid(EndOf(Selections'), Content)]_vars

\* C5, amended: a movement Left, Right, LineStart, LineEnd, FileStart or FileEnd
\* of a valid position that succeeds leaves a position that is valid against
\* the same text; a movement Up or Down that succeeds leaves the column as it
\* was, on a line that exists and is not empty.
C5_MoveKeepsValid ==
    [][(IsMove(ev') /\ ev'.st = "ok" /\ PosValid(EndOf(Selections), Content))
        => IF ev'.actions[1].m.kind \in Vertical
           THEN /\ LineExists(EndOf(Selections').line, Content)
                /\ ~Line_is_empty(EndOf(Selections').line, Content)
                /\ EndOf(Selections').column = EndOf(Selections).column
           ELSE PosValid(EndOf(Selections'), Content)]_vars

\* A movement Up(1) has succeeded from a valid position (the same column, one
\* line below) and has left a position that is not valid.
C5_Witness ==
    /\ ev.actions = <<AMove("Move", "Up", 1)>> /\ ev.st = "ok"
    /\ PosValid(Pos(EndOf(Selections).line + 1, EndOf(Selections).column), Content)
    /\ ~PosValid(EndOf(Selections), Content)

RECURSIVE AppliedPrefix(_, _, _)
AppliedPrefix(S, actions, k) ==
    IF k = 0 THEN S ELSE do_action(AppliedPrefix(S, actions, k - 1), actions[k], TRUE).S
FailedAction(S, actions, k) == do_action(AppliedPrefix(S, actions, k), actions[k + 1], TRUE)

\* C6: when an action of the sequence of a key returns an error, the state is
\* the one the earlier actions and the failed action left (no later action is
\* applied, nothing is rolled back), the text of the error is the pending
\* message, and the editor keeps running.
C6_ErrorAborts ==
    [][ev'.st = "err"
        => /\ ev'.applied < Len(ev'.actions)
           /\ FailedAction(draw(State), ev'.actions, ev'.applied).st = "err"
           /\ State' = show_message(FailedAction(draw(State), ev'.actions, ev'.applied).S,
                                    FailedAction(draw(State), ev'.actions, ev'.applied).msg)
           /\ pending_message' # None
           /\ ~crashed' /\ ~want_quit']_vars

\* A character typed in Insert mode: the insertion and the shift of the start
\* have been applied, the shift of the end has returned an error, and the
\* inserted character is in the content.
C6_Witness ==
    /\ Inserts(ev.actions) /\ Len(ev.actions) = 3
    /\ ev.st = "err" /\ ev.applied = 2
    /\ Len(Content) = Len(ev.content) + 1
    /\ pending_message = Some(<<"no next line">>)
    /\ ~crashed

\* C7: every window starts in Normal mode, and a step changes the mode of a
\* window only from Normal to another mode or from another mode to Normal.
C7_ModeChanges ==
    /\ \A w \in DOMAIN windows : windows[w].mode = "Normal"
    /\ [][\A w \in DOMAIN windows' :
            IF w \in DOMAIN windows
            THEN \/ windows'[w].mode = windows[w].mode
                 \/ windows[w].mode = "Normal"
                 \/ windows'[w].mode = "Normal"
            ELSE windows'[w].mode = "Normal"]_vars

\* Esc has brought a window back to Normal mode.
C7_Witness ==
    /\ ev.actions = <<SwitchToMode("Normal")>> /\ ev.st = "ok"
    /\ InMode("Normal")

\* C8: after an Undo that succeeds (the history was not empty), both ends of
\* every selection of every window on the undone buffer are valid against
\* the new content of the buffer.
C8_UndoLeavesValid ==
    [][(IsUndo(ev') /\ History # <<>> /\ History_undo(FocusedBuffer(State)).st = "ok")
        => /\ ~crashed'
           /\ \A w \in DOMAIN windows' :
                windows'[w].buffer = FocusedWindow(State).buffer
                    => AllValid(windows'[w].selections, Content')]_vars

\* The selection Delete removes: the selection validated and ordered.
Removed(sel, rope) == order(Selection_validate(sel, rope).sel)
RemovedFrom(sel, rope) == char_of(Removed(sel, rope).start, rope)
RemovedTo(sel, rope) == char_of(Removed(sel, rope).end, rope) + 1
Remaining(sel, rope) == rope_remove(rope, RemovedFrom(sel, rope), RemovedTo(sel, rope))

\* C9: Selection::remove_from removes the inclusive range of characters from
\* the earlier end to the later end, appends to the history a Delete edit that
\* holds the removed text and the ordered start, leaves the selection
\* collapsed, at that start when it is still valid, leaves both ends valid,
\* and leaves the buffer with content (a terminator is inserted when the
\* removal emptied it).
C9_RemoveFrom ==
    [][IsDelete(ev')
        => /\ ~crashed'
           /\ Content' = IF Remaining(Selections[1], Content) = <<>> THEN <<NL>>
                         ELSE Remaining(Selections[1], Content)
           /\ Len(History') > Len(History)
           /\ History'[Len(History) + 1] =
                Delete(Removed(Selections[1], Content).start,
                       rope_slice(Content, RemovedFrom(Selections[1], Content),
                                  RemovedTo(Selections[1], Content)))
           /\ Selections'[1].start = Selections'[1].end
           /\ EndsValid(Selections'[1], Content')
           /\ PosValid(Removed(Selections[1], Content).start, Content')
                => Selections'[1].start = Removed(Selections[1], Content).start
           /\ Content' # <<>>]_vars

Point(l, c) == Sel(Pos(l, c), Pos(l, c))
IsRight1(e) == e.actions = <<AMove("Move", "Right", 1)>>
OnExample(l, c) == Content = ExampleDoc /\ Selections = <<Point(l, c)>>

\* C10, as the specification states it: in "ab\ncd\n" with the selection at
\* line 1 column 1, Move(Right(1)) leads to line 1 column 2, a second
\* Move(Right(1)) to line 2 column 1, Delete there leaves "ab\nd\n", and one
\* Undo restores "ab\ncd\n".
C10_Example_Original ==
    [][/\ (OnExample(1, 1) /\ IsRight1(ev')) => Selections' = <<Point(1, 2)>>
       /\ (OnExample(1, 2) /\ IsRight1(ev')) => Selections' = <<Point(2, 1)>>
       /\ (OnExample(2, 1) /\ IsDelete(ev')) => Content' = <<"a", "b", NL, "d", NL>>
       /\ (IsDelete(ev) /\ ev.content = ExampleDoc /\ ev.selections = <<Point(2, 1)>>
             /\ IsUndo(ev')) => Content' = ExampleDoc]_vars

\* C10, amended: in "ab\ncd\n" with the selection at line 1 column 1,
\* Move(Right(1)) leads to line 1 column 2, a second Move(Right(1)) to line 1
\* column 3 (the terminator of the line) and a third to line 2 column 1;
\* Delete there leaves "ab\nd\n", and one Undo restores "ab\ncd\n".
C10_Example ==
    [][/\ (OnExample(1, 1) /\ IsRight1(ev')) => Selections' = <<Point(1, 2)>>
       /\ (OnExample(1, 2) /\ IsRight1(ev')) => Selections' = <<Point(1, 3)>>
       /\ (OnExample(1, 3) /\ IsRight1(ev')) => Selections' = <<Point(2, 1)>>
       /\ (OnExample(2, 1) /\ IsDelete(ev'))
             => (Content' = <<"a", "b", NL, "d", NL>> /\ ~crashed')
       /\ (IsDelete(ev) /\ ev.content = ExampleDoc /\ ev.selections = <<Point(2, 1)>>
             /\ IsUndo(ev')) => (Content' = ExampleDoc /\ ~crashed')]_vars

\* The Undo of the example has run: after the Delete of "c" at line 2
\* column 1 the content is "ab\ncd\n" again.
C10_Witness ==
    /\ IsUndo(ev) /\ ev.st = "ok" /\ pending_message = None /\ ~crashed
    /\ History = <<>>
    /\ OnExample(2, 1)

IsMoveOf(e, kind) == IsMove(e) /\ e.actions[1].m.kind = kind
CountOf(e) == e.actions[1].m.n

\* C11: Right(n) that succeeds from a valid position, and then Left(n),
\* return the position Right(n) started from.
C11_RightThenLeft ==
    [][(IsMoveOf(ev', "Right") /\ ev'.st = "ok" /\ PosValid(EndOf(Selections), Content))
        => move_to(EndOf(Selections'), Content, Mv("Left", CountOf(ev')))
             = Res(EndOf(Selections), "ok")]_vars

\* Right(2) has succeeded and has wrapped from the terminator of line 1 to
\* the first column of line 2.
C11_Witness ==
    /\ IsMoveOf(ev, "Right") /\ CountOf(ev) = 2 /\ ev.st = "ok"
    /\ EndOf(Selections) = Pos(2, 1)
    /\ LineLen(1, Content) = 2

\* C12: an Undo on a buffer whose history is empty sets the pending message
\* to "nothing left to undo", returns no error to the dispatcher, and leaves
\* the content and the history of the buffer and every selection as they
\* were.
C12_NothingLeftToUndo ==
    [][(IsUndo(ev') /\ History = <<>>)
        => /\ pending_message' = Some(<<"nothing left to undo">>)
           /\ ev'.st = "ok" /\ ev'.applied = 1
           /\ ~crashed'
           /\ buffers' = buffers
           /\ windows' = windows]_vars

\* The key u has found the history of the scratch buffer empty: the message
\* is pending and the content is the terminator the buffer started with.
C12_Witness ==
    /\ IsUndo(ev) /\ ev.st = "ok"
    /\ History = <<>> /\ Content = <<NL>>
    /\ pending_message = Some(<<"nothing left to undo">>)
    /\ ~crashed

CommandTypes == {"Character", "Clear", "Tab", "Return", "Backspace"}
IsCommandAction(e) == Len(e.actions) = 1 /\ e.actions[1].type \in CommandTypes

\* C13: a command-line action delivered to the dispatcher while the focused
\* window is not in Command mode is rejected with an assertion failure: the
\* process panics and the command line and the mode of the window are as
\* they were.
C13_CommandOutsideMode ==
    [][(IsCommandAction(ev') /\ ~InMode("Command"))
        => /\ crashed'
           /\ windows' = windows]_vars

IsReturn(e) == e.actions = <<A0("Return")>>
OpenNames == {<<"o", "p", "e", "n">>, <<"e">>}
Unreadable(S, path) == path \notin DOMAIN S.files \/ S.files[path] = Directory
OpenFailsOn(S, args) == Len(args) = 2 /\ args[1] \in OpenNames /\ Unreadable(S, args[2])
\* The words of the command line of the focused window, none when the line
\* has no split.
Submitted(S) ==
    IF shlex_is_none(FocusedWindow(S).command) THEN <<>> ELSE shlex(FocusedWindow(S).command)

\* C20: when the command open fails (the path does not exist or cannot be
\* read), the error is returned and becomes the pending message, and the
\* buffers, the windows (but for the command line Return has taken and the
\* mode it has set), the open tabs and the focused tab are as they were.
C20_OpenFails ==
    [][(IsReturn(ev') /\ OpenFailsOn(State, Submitted(State)))
        => /\ ev'.st = "err" /\ ~crashed'
           /\ pending_message' \in {Some(<<"No such file or directory (os error 2)">>),
                                    Some(<<"Is a directory (os error 21)">>)}
           /\ buffers' = buffers
           /\ windows' = [windows EXCEPT ![FocusedId(State)].command = <<>>,
                                          ![FocusedId(State)].mode = "Normal"]
           /\ open_tabs' = open_tabs
           /\ focused_tab' = focused_tab]_vars

\* The command open has failed on a path that does not exist, in a window
\* beside the window of an opened file.
C20_Witness ==
    /\ IsReturn(ev) /\ ev.st = "err"
    /\ pending_message = Some(<<"No such file or directory (os error 2)">>)
    /\ Len(open_tabs) = 2 /\ Len(buffers) = 2
    /\ ~crashed

InGoto(S) == FocusedWindow(S).mode \in {Goto(FALSE), Goto(TRUE)}
MovementTypes == {"Move", "ShiftStart", "ShiftEnd"}
MovementsOf(e) == {i \in 1..Len(e.actions) : e.actions[i].type \in MovementTypes}

\* C14: the key event handled for a window in Goto mode leaves the window in
\* Normal mode, whether or not the key is one of the four motion keys, and
\* applies at most one movement.
C14_GotoReturns ==
    [][InGoto(State)
        => /\ windows'[FocusedId(State)].mode = "Normal"
           /\ ~crashed'
           /\ Cardinality(MovementsOf(ev')) <= 1
           /\ ev'.applied = Len(ev'.actions)]_vars

\* The position after k movements of one unit, each of which succeeds, or
\* the result of the first that does not.
RECURSIVE UnitsTaken(_, _, _, _)
UnitAfter(r, rope, kind) == IF r.st # "ok" THEN r ELSE move_to(r.pos, rope, Mv(kind, 1))
UnitsTaken(pos, rope, kind, k) ==
    IF k = 0 THEN Res(pos, "ok") ELSE UnitAfter(UnitsTaken(pos, rope, kind, k - 1), rope, kind)
NextUnit(pos, rope, kind, k) == UnitAfter(UnitsTaken(pos, rope, kind, k), rope, kind)
KindOf(e) == e.actions[1].m.kind

\* C15: when Left(n) or Right(n) with n > 1 returns an error from a valid
\* position, k < n units have succeeded, the unit after them has failed, the
\* error is the error of that unit, and the position is the position the k
\* units left.
C15_PartialMotion ==
    [][(IsMove(ev') /\ KindOf(ev') \in {"Left", "Right"} /\ CountOf(ev') > 1 /\ ev'.st = "err"
          /\ PosValid(EndOf(Selections), Content))
        => \E k \in 0..(CountOf(ev') - 1) :
              /\ UnitsTaken(EndOf(Selections), Content, KindOf(ev'), k).st = "ok"
              /\ NextUnit(EndOf(Selections), Content, KindOf(ev'), k).st
                    \in {"NoPrevLine", "NoNextLine"}
              /\ pending_message'
                    = Some(ErrText(NextUnit(EndOf(Selections), Content, KindOf(ev'), k).st))
              /\ EndOf(Selections')
                    = UnitsTaken(EndOf(Selections), Content, KindOf(ev'), k).pos
              /\ Selections'[1].start = Selections[1].start]_vars

\* Right(2) has returned an error and has left the end of the selection one
\* column after its start, on the terminator that ends the file: the state
\* a failure of the second unit leaves.
C15_Witness ==
    /\ IsMoveOf(ev, "Right") /\ CountOf(ev) = 2 /\ ev.st = "err"
    /\ pending_message = Some(<<"no next line">>)
    /\ Selections[1].start = Pos(1, 1) /\ Selections[1].end = Pos(1, 2)
    /\ Content = <<"a", NL>>

\* The steps of one line Down(n) takes from a line: a step is taken while
\* the line is not the last and the next line is not empty.
RECURSIVE StepsBelow(_, _, _)
StepsBelow(l, rope, n) ==
    IF n = 0 \/ l >= len_lines(rope) THEN 0
    ELSE IF Line_is_empty(l + 1, rope) THEN 0
    ELSE 1 + StepsBelow(l + 1, rope, n - 1)

\* C16: Down(n), n >= 1, takes a step of one line only while the line is
\* not the last and the next line is not empty: it returns NoNextLine and
\* leaves the position when no step can be taken, and otherwise succeeds,
\* on a line that is not empty, after as many steps as can be taken, at
\* most n.
C16_DownStops ==
    [][(IsMoveOf(ev', "Down") /\ CountOf(ev') >= 1)
        => /\ ~crashed'
           /\ IF StepsBelow(EndOf(Selections).line, Content, CountOf(ev')) = 0
              THEN /\ ev'.st = "err"
                   /\ pending_message' = Some(<<"no next line">>)
                   /\ Selections' = Selections
              ELSE /\ ev'.st = "ok"
                   /\ EndOf(Selections')
                        = Pos(EndOf(Selections).line
                                + StepsBelow(EndOf(Selections).line, Content, CountOf(ev')),
                              EndOf(Selections).column)
                   /\ ~Line_is_empty(EndOf(Selections').line, Content)]_vars

\* Down(2) has succeeded with one step: it has stopped on line 2, before
\* the empty line that ends the document.
C16_Witness ==
    /\ IsMoveOf(ev, "Down") /\ CountOf(ev) = 2 /\ ev.st = "ok"
    /\ EndOf(Selections).line = 2
    /\ len_lines(Content) = 3 /\ Line_is_empty(3, Content)

EndsWithTerminator(rope) == rope # <<>> /\ rope[Len(rope)] = NL

\* C17: on a document whose text ends with a terminator FileEnd succeeds
\* from any position and leaves the position at column 1 of the line before
\* the trailing empty line, the last line that is not empty.
C17_FileEnd ==
    [][(IsMoveOf(ev', "FileEnd") /\ EndsWithTerminator(Content))
        => /\ ev'.st = "ok" /\ ~crashed'
           /\ EndOf(Selections') = Pos(len_lines(Content) - 1, 1)
           /\ Line_is_empty(len_lines(Content), Content)
           /\ ~Line_is_empty(EndOf(Selections').line, Content)]_vars

\* FileEnd has put the position on line 2 of a document of two lines and a
\* trailing empty line.
C17_Witness ==
    /\ IsMoveOf(ev, "FileEnd") /\ ev.st = "ok"
    /\ EndsWithTerminator(Content) /\ len_lines(Content) = 3
    /\ Selections = <<Point(2, 1)>>

HasNextLine(l, rope) == ~Line_is_last(l, rope) /\ ~Line_is_empty(l + 1, rope)

\* C18: Right(1) from a valid position at the last column of its line moves
\* to column 1 of the next line when there is a next line with characters
\* and otherwise returns NoNextLine and leaves the position; from any other
\* valid column it moves one column to the right on the line.
C18_RightUnit ==
    [][(IsMoveOf(ev', "Right") /\ CountOf(ev') = 1 /\ PosValid(EndOf(Selections), Content))
        => /\ ~crashed'
           /\ IF EndOf(Selections).column < LineLen(EndOf(Selections).line, Content)
              THEN /\ ev'.st = "ok"
                   /\ EndOf(Selections')
                        = Pos(EndOf(Selections).line, EndOf(Selections).column + 1)
              ELSE IF HasNextLine(EndOf(Selections).line, Content)
              THEN /\ ev'.st = "ok"
                   /\ EndOf(Selections') = Pos(EndOf(Selections).line + 1, 1)
              ELSE /\ ev'.st = "err"
                   /\ pending_message' = Some(<<"no next line">>)
                   /\ Selections' = Selections]_vars

\* Right(1) has wrapped from the last column of line 1, which is not its
\* first column, to column 1 of line 2.
C18_Witness ==
    /\ IsMoveOf(ev, "Right") /\ CountOf(ev) = 1 /\ ev.st = "ok"
    /\ Selections = <<Point(2, 1)>>
    /\ LineLen(1, Content) > 1

\* C19: Left(1) from a valid position at column 1 of line 1 returns
\* NoPrevLine and leaves the position; at column 1 of another line it moves
\* to the last column of the line before; at any other column it moves one
\* column to the left on the line.
C19_LeftUnit ==
    [][(IsMoveOf(ev', "Left") /\ CountOf(ev') = 1 /\ PosValid(EndOf(Selections), Content))
        => /\ ~crashed'
           /\ IF EndOf(Selections).column > 1
              THEN /\ ev'.st = "ok"
                   /\ EndOf(Selections')
                        = Pos(EndOf(Selections).line, EndOf(Selections).column - 1)
              ELSE IF EndOf(Selections).line > 1
              THEN /\ ev'.st = "ok"
                   /\ EndOf(Selections')
                        = Pos(EndOf(Selections).line - 1,
                              LineLen(EndOf(Selections).line - 1, Content))
                   /\ Content[char_of(EndOf(Selections'), Content) + 1] = NL
              ELSE /\ ev'.st = "err"
                   /\ pending_message' = Some(<<"no previous line">>)
                   /\ Selections' = Selections]_vars

\* Left(1) has returned NoPrevLine at the start of a document of two lines.
C19_Witness ==
    /\ IsMoveOf(ev, "Left") /\ CountOf(ev) = 1 /\ ev.st = "err"
    /\ pending_message = Some(<<"no previous line">>)
    /\ Selections = <<Point(1, 1)>>
    /\ len_lines(Content) > 1 /\ ~Line_is_empty(2, Content)

\* The windows once Return has taken the command line of the focused window
\* and set its mode.
TakenWindows(S) ==
    [w \in 1..Len(S.windows) |->
        IF w = FocusedId(S) THEN Window(S.windows[w].buffer, "Normal", S.windows[w].selections, <<>>)
        ELSE S.windows[w]]
OpensOn(S, args) == Len(args) >= 2 /\ args[1] \in OpenNames /\ ~Unreadable(S, args[2])

\* C21: a command open that succeeds adds exactly one buffer, which holds the
\* content of the file, an empty history and the path, and exactly one window
\* on that buffer, in Normal mode, with an empty command line and one
\* selection collapsed at 1:1; the window is the last of the open tabs and
\* has the focus; the buffers, the windows (but for the command line Return
\* has taken and the mode it has set) and the order of the tabs that existed
\* are as they were.
C21_OpenAdds ==
    [][(IsReturn(ev') /\ OpensOn(State, Submitted(State)))
        => /\ ev'.st = "ok" /\ ~crashed'
           /\ buffers' = Append(buffers, [path |-> Some(Submitted(State)[2]),
                                          name |-> Submitted(State)[2],
                                          content |-> files[Submitted(State)[2]],
                                          history |-> <<>>])
           /\ windows' = Append(TakenWindows(State),
                                [buffer |-> Len(buffers) + 1, mode |-> "Normal",
                                 selections |-> <<Sel(Pos(1, 1), Pos(1, 1))>>,
                                 command |-> <<>>])
           /\ open_tabs' = Append(open_tabs, Len(windows) + 1)
           /\ focused_tab' = Len(open_tabs') - 1
           /\ files' = files]_vars

\* The command open has succeeded beside the scratch buffer: two buffers, two
\* windows, two tabs, the focus on the second.
C21_Witness ==
    /\ IsReturn(ev) /\ ev.st = "ok"
    /\ Len(buffers) = 2 /\ Len(windows) = 2 /\ open_tabs = <<1, 2>> /\ focused_tab = 1
    /\ buffers[2].content = <<"a", NL>> /\ buffers[2].path = Some(FileName)

WriteNames == {<<"w", "r", "i", "t", "e">>, <<"w">>}
WritesScratch(S, args) ==
    Len(args) >= 1 /\ args[1] \in WriteNames /\ FocusedBuffer(S).path = None

\* C22: the command write on a window whose buffer has no path fails with
\* "cannot save a scratch buffer": no file is opened or written, and the
\* content and the history of the buffer are as they were.
C22_WriteScratch ==
    [][(IsReturn(ev') /\ WritesScratch(State, Submitted(State)))
        => /\ ev'.st = "err" /\ ~crashed'
           /\ pending_message' = Some(<<"cannot save a scratch buffer">>)
           /\ files' = files
           /\ buffers' = buffers]_vars

\* The command write has failed on the scratch buffer.
C22_Witness ==
    /\ IsReturn(ev) /\ ev.st = "err"
    /\ pending_message = Some(<<"cannot save a scratch buffer">>)
    /\ FocusedBuffer(State).path = None
    /\ files = Disk

CommandNames == {<<"q", "u", "i", "t">>, <<"q">>} \cup OpenNames \cup WriteNames
UnknownName(args) == Len(args) >= 1 /\ args[1] \notin CommandNames

\* C23: a command whose first word is none of quit, q, open, e, write, w
\* returns the error "command '<name>' doesn't exist" and runs no handler:
\* the buffers, the windows (but for the command line Return has taken and
\* the mode it has set), the tabs, the focus, the disk and the quit flag are
\* as they were.
C23_UnknownCommand ==
    [][(IsReturn(ev') /\ UnknownName(Submitted(State)))
        => /\ ev'.st = "err" /\ ~crashed'
           /\ pending_message'
                = Some(<<"command '">> \o Submitted(State)[1] \o <<"' doesn't exist">>)
           /\ buffers' = buffers
           /\ windows' = TakenWindows(State)
           /\ open_tabs' = open_tabs
           /\ focused_tab' = focused_tab
           /\ want_quit' = want_quit
           /\ files' = files]_vars

\* The command f, which does not exist, has been submitted in the window of
\* an opened file.
C23_Witness ==
    /\ IsReturn(ev) /\ ev.st = "err"
    /\ pending_message = Some(<<"command '", "f", "' doesn't exist">>)
    /\ Len(buffers) = 2
    /\ ~want_quit

NoWords(S) == shlex_is_none(FocusedWindow(S).command) \/ shlex(FocusedWindow(S).command) = <<>>

\* C24: Return in Command mode leaves the window that had the focus in Normal
\* mode with an empty command line, whatever becomes of the command; on a
\* command line that is empty or has no split, the error ("no command
\* given", "failed to parse command '<line>'") becomes the pending message,
\* nothing crashes and no command runs.
C24_Return ==
    [][(IsReturn(ev') /\ FocusedWindow(State).mode = "Command")
        => /\ windows'[FocusedId(State)].mode = "Normal"
           /\ windows'[FocusedId(State)].command = <<>>
           /\ NoWords(State)
                => /\ ~crashed' /\ ev'.st = "err"
                   /\ pending_message'
                        = Some(IF shlex_is_none(FocusedWindow(State).command)
                               THEN <<"failed to parse command '">>
                                    \o FocusedWindow(State).command \o <<"'">>
                               ELSE <<"no command given">>)
                   /\ buffers' = buffers
                   /\ windows' = TakenWindows(State)
                   /\ open_tabs' = open_tabs
                   /\ focused_tab' = focused_tab
                   /\ want_quit' = want_quit
                   /\ files' = files]_vars

\* Return has been pressed in Command mode on a command line that has no
\* split.
C24_Witness ==
    /\ IsReturn(ev) /\ ev.st = "err"
    /\ pending_message = Some(<<"failed to parse command '", "e", " ", Quote, "'">>)
    /\ FocusedWindow(State).mode = "Normal"
    /\ FocusedWindow(State).command = <<>>

\* The event has set a message: its sequence of actions failed, or it was an
\* Undo that found the history empty.
SetsMessage(e, history) == e.st = "err" \/ (IsUndo(e) /\ e.st = "ok" /\ history = <<>>)

\* C25: the pending message is one-shot.  The draw of a turn writes the
\* pending message on the status line and leaves none pending; a message is
\* pending after the turn exactly when the event of the turn has set one, so
\* that the message of a failed key event is on the status line of the next
\* draw and of no later one until an event sets a message again.
C25_OneShot ==
    [][/\ draw(State).pending_message = None
       /\ pending_message # None => status_line(State) = <<"message", pending_message[1]>>
       /\ status_line(draw(State))[1] = "mode"
       /\ pending_message' # None <=> SetsMessage(ev', History)]_vars

\* A key event has failed and its message is pending for the next draw.
C25_Witness ==
    /\ ev.st = "err" /\ ev.actions # <<>>
    /\ pending_message # None
    /\ status_line(State) = <<"message", pending_message[1]>>
    /\ draw(State).pending_message = None

TabTypes == {"PreviousTab", "NextTab"}
OtherWindows(S) == (1..Len(S.windows)) \ {FocusedId(S)}
OtherBuffers(S) == (1..Len(S.buffers)) \ {FocusedWindow(S).buffer}

\* C26: an action applied by do_action changes only what it addresses.  A
\* PreviousTab or a NextTab changes nothing but the index of the focused tab.
\* Every other action leaves each window but the focused one, and each buffer
\* but the buffer of the focused window, as it was; the focused window stays
\* on its buffer and the buffer keeps its path and its name.
C26_Frame ==
    [][Len(ev'.actions) = 1
        => IF ev'.actions[1].type \in TabTypes
           THEN /\ windows' = windows /\ buffers' = buffers /\ open_tabs' = open_tabs
                /\ last_screen_height' = last_screen_height
                /\ pending_message' = pending_message
                /\ want_quit' = want_quit /\ files' = files
           ELSE /\ \A w \in OtherWindows(State) : windows'[w] = windows[w]
                /\ \A b \in OtherBuffers(State) : buffers'[b] = buffers[b]
                /\ windows'[FocusedId(State)].buffer = FocusedWindow(State).buffer
                /\ buffers'[FocusedWindow(State).buffer].path = FocusedBuffer(State).path
                /\ buffers'[FocusedWindow(State).buffer].name = FocusedBuffer(State).name
                /\ SubSeq(open_tabs', 1, Len(open_tabs)) = open_tabs]_vars

\* A Delete has emptied the document of the second window, and the scratch
\* window, which holds a command line, is as it was.
C26_Witness ==
    /\ IsDelete(ev) /\ ev.st = "ok"
    /\ focused_tab = 1 /\ Len(windows) = 2
    /\ buffers[2].history # <<>>
    /\ buffers[1].content = <<NL>> /\ windows[1].selections = <<Sel(file_start, file_start)>>

QuitNames == {<<"q", "u", "i", "t">>, <<"q">>}
Quits(args) == Len(args) >= 1 /\ args[1] \in QuitNames

\* C27: once the command quit (or q) has been submitted the quit flag is set;
\* the flag, once set, is never cleared; and the main loop handles no event
\* in a state where the flag is set.
C27_QuitStops ==
    [][/\ (IsReturn(ev') /\ Quits(Submitted(State))) => (want_quit' /\ ev'.st = "ok")
       /\ want_quit => want_quit'
       /\ ~want_quit]_vars

\* The command q has been submitted: the flag is set and the window is back
\* in Normal mode.
C27_Witness ==
    /\ IsReturn(ev) /\ ev.st = "ok"
    /\ want_quit
    /\ FocusedWindow(State).mode = "Normal"

\* C28: the input thread and the signal thread send while the main loop
\* runs, and the main loop handles one event a turn.  A turn that handles a
\* key event takes the oldest key event of the channel and nothing else, and
\* the whole sequence of actions of the key is applied (or aborted at its
\* first error) within the turn; the key events handled and the key events
\* waiting are, in this order, the key events produced; a turn that handles
\* a resize signal leaves the buffers (content, history), the windows
\* (selections, mode, command line), the tabs and the focused tab as they
\* were, and takes no key event.
C28_OneAtATime ==
    [][/\ handled' # handled
            => /\ handled' = Append(handled, Head(inputs))
               /\ inputs' = Tail(inputs)
               /\ signals' = signals
               /\ ev'.actions = KeyActions(FocusedWindow(State).mode, Head(inputs))
               /\ ev'.st = "ok" => ev'.applied = Len(ev'.actions)
       /\ signals' < signals
            => /\ signals' = signals - 1
               /\ buffers' = buffers /\ windows' = windows
               /\ open_tabs' = open_tabs /\ focused_tab' = focused_tab
               /\ inputs' = inputs /\ handled' = handled
       /\ produced' = handled' \o inputs']_vars

\* The keys i and a have been handled in this order (the window is in Insert
\* mode and holds the a) while a third key and a signal wait in their
\* channels.
C28_Witness ==
    /\ handled = <<Char("i"), Char("a")>>
    /\ Len(inputs) = 1 /\ signals = 1
    /\ FocusedWindow(State).mode = "Insert"
    /\ Content = <<"a", NL>>

IsOrder(e) == e.actions = <<A0("OrderSelections")>>
Ends(sel) == {sel.start, sel.end}
Ordered(sel) ==
    \/ sel.start.line < sel.end.line
    \/ sel.start.line = sel.end.line /\ sel.start.column <= sel.end.column

\* C29: order leaves each selection with its start at or before its end in
\* (line, column) order, on the same pair of positions, and ordering the
\* result again changes nothing.
C29_Order ==
    [][IsOrder(ev')
        => /\ ev'.st = "ok"
           /\ Len(windows'[FocusedId(State)].selections) = Len(Selections)
           /\ \A i \in 1..Len(Selections) :
                 /\ Ordered(windows'[FocusedId(State)].selections[i])
                 /\ Ends(windows'[FocusedId(State)].selections[i]) = Ends(Selections[i])
                 /\ order(windows'[FocusedId(State)].selections[i])
                      = windows'[FocusedId(State)].selections[i]
                 /\ order(order(Selections[i])) = order(Selections[i])
                 /\ Ordered(Selections[i])
                      => windows'[FocusedId(State)].selections[i] = Selections[i]
                 /\ ~Ordered(Selections[i])
                      => windows'[FocusedId(State)].selections[i]
                          = Sel(Selections[i].end, Selections[i].start)]_vars

\* OrderSelections has acted on the window of the document, whose selection
\* runs from the first line to the second.
C29_Witness ==
    /\ IsOrder(ev) /\ ev.st = "ok"
    /\ focused_tab = 1
    /\ Selections = <<Sel(Pos(1, 1), Pos(2, 1))>>

LinesExist(sel, rope) == LineExists(sel.start.line, rope) /\ LineExists(sel.end.line, rope)

\* C30: after any sequence of key events from the initial state, both ends
\* of every selection of every window name a line that exists in the buffer
\* of the window (so that no movement, validation, edit or undo indexes a
\* line that does not exist).
C30_LinesExist ==
    \A w \in 1..Len(windows) : \A i \in 1..Len(windows[w].selections) :
        LinesExist(windows[w].selections[i], buffers[windows[w].buffer].content)

Terminated(rope) == rope # <<>> /\ rope[Len(rope)] = NL

\* C31: from the scratch buffer, after any sequence of key events the
\* content of the buffer is not empty and its last character is a line
\* terminator.
C31_Terminated == \A b \in 1..Len(buffers) : Terminated(buffers[b].content)

Collapsed(sel) == sel.start = sel.end

\* C32: after a Move action has been applied to a selection the selection
\* has start = end, whether the movement succeeded or returned an error.
C32_MoveCollapses ==
    [][(IsMove(ev') /\ ~crashed')
        => \A i \in 1..Len(windows'[FocusedId(State)].selections) :
              Collapsed(windows'[FocusedId(State)].selections[i])]_vars

IsTyped(e, mode) == \E c \in TypeChars : e.actions = InsertAppendActions(mode, Char(c))
TypedChar(e) == IF e.actions[1].type = "ShiftEnd" THEN e.actions[2].c ELSE e.actions[1].c
\* The characters an ordered selection covers: from the character of its
\* start to the character of its end, both included.
Covered(sel, rope) == SubSeq(rope, char_of(sel.start, rope) + 1, char_of(sel.end, rope) + 1)
WithChar(rope, at, c) == SubSeq(rope, 1, at) \o <<c>> \o SubSeq(rope, at + 1, Len(rope))

\* C33: in Insert mode, for every ordered selection with valid ends and
\* every typed character c, the key event inserts c immediately before the
\* first character of the selection, and the selection afterwards covers the
\* same characters of the text as before.
C33_InsertKeepsSelection ==
    [][(IsTyped(ev', "Insert") /\ Ordered(Selections[1]) /\ EndsValid(Selections[1], Content))
        => /\ ev'.st = "ok" /\ ~crashed'
           /\ Content' = WithChar(Content, char_of(Selections[1].start, Content), TypedChar(ev'))
           /\ EndsValid(Selections'[1], Content')
           /\ Covered(Selections'[1], Content') = Covered(Selections[1], Content)]_vars

\* C34: in Append mode, for every ordered selection with valid ends, the
\* last character of the document included, and every typed character c, the
\* key event succeeds, inserts c immediately after the last character of the
\* selection, and moves the end onto c while the start stays.
C34_AppendExtends ==
    [][(IsTyped(ev', "Append") /\ Ordered(Selections[1]) /\ EndsValid(Selections[1], Content))
        => /\ ev'.st = "ok" /\ ~crashed'
           /\ Content' = WithChar(Content, char_of(Selections[1].end, Content) + 1, TypedChar(ev'))
           /\ Selections'[1].start = Selections[1].start
           /\ char_of(Selections'[1].end, Content') = char_of(Selections[1].end, Content) + 1]_vars

BackspaceActions == InsertAppendActions("Insert", Key("Backspace", ""))
WithoutChar(rope, at) == SubSeq(rope, 1, at - 1) \o SubSeq(rope, at + 1, Len(rope))

\* C35: in Insert mode, for every selection with valid ends, collapsed or
\* not, Backspace removes exactly the one character immediately before the
\* start of the selection; with the start at line 1 column 1 it removes
\* nothing and reports the error.
C35_BackspaceBeforeStart ==
    [][(/\ ev'.actions = BackspaceActions
        /\ FocusedWindow(State).mode = "Insert"
        /\ EndsValid(Selections[1], Content))
        => /\ ~crashed'
           /\ IF Selections[1].start = file_start
              THEN ev'.st = "err" /\ Content' = Content
              ELSE /\ ev'.st = "ok"
                   /\ Content' = WithoutChar(Content, char_of(Selections[1].start, Content))]_vars

IsTab(e) == Len(e.actions) = 1 /\ e.actions[1].type \in TabTypes
Tabs == Len(open_tabs)
BackAfterNext(checks) == PreviousTab(NextTab(State).S, checks)

\* C36: with k >= 1 open tabs and the focus on tab i < k, a tab-focus action
\* never fails and leaves focused_tab < k; NextTab moves the focus to
\* (i + 1) mod k, PreviousTab to (i - 1) mod k, from the first tab to the last,
\* and PreviousTab applied after NextTab gives i again.
C36_TabFocusWraps ==
    [][IsTab(ev')
        => /\ ~crashed' /\ ev'.st = "ok"
           /\ focused_tab' < Tabs
           /\ ev'.actions[1].type = "NextTab" => focused_tab' = (focused_tab + 1) % Tabs
           /\ ev'.actions[1].type = "PreviousTab" => focused_tab' = (focused_tab + Tabs - 1) % Tabs
           /\ \A checks \in BOOLEAN :
                 /\ BackAfterNext(checks).st = "ok"
                 /\ BackAfterNext(checks).S.focused_tab = focused_tab]_vars

Registered(args) == Len(args) >= 1 /\ args[1] \in CommandNames

\* C37: every command line submitted with Return whose first word is a
\* registered name or alias, with any number of arguments, none included,
\* ends in success or in an error that becomes the pending message; it never
\* crashes the editor.
C37_SubmissionNeverCrashes ==
    [][(IsReturn(ev') /\ InMode("Command") /\ Registered(Submitted(State)))
        => /\ ~crashed'
           /\ ev'.st \in {"ok", "err"}
           /\ ev'.st = "err" => pending_message' # None]_vars

NewSelection == <<Sel(file_start, file_start)>>
\* The focused window is as it was created: its selection at the start of
\* the file and no edit made to its buffer.
AsCreated == Fresh /\ Selections = NewSelection /\ History = <<>>
FirstTypes ==
    {"Move", "ShiftStart", "ShiftEnd", "Delete", "InsertAtSelectionStart", "InsertAtSelectionEnd"}
IsFirst(e) == Len(e.actions) = 1 /\ e.actions[1].type \in FirstTypes

\* C38: in a window as it was created (the scratch window, or the window of
\* an opened file of any content, the empty file included) the selection at
\* line 1 column 1 is a valid position of the buffer, and a movement, a
\* Delete or an insertion applied to it next ends in success or in a reported
\* error, never in a crash.
C38_NewWindowIsSafe ==
    [][(AsCreated /\ IsFirst(ev'))
        => /\ PosValid(file_start, Content)
           /\ ~crashed'
           /\ ev'.st \in {"ok", "err"}]_vars

LastEdit == History[Len(History)]

\* C39: the Undo of an Insert edit removes exactly the one character the
\* edit inserted, the character at the position of the edit, whatever the
\* number of bytes of its encoding.
C39_UndoRemovesOneChar ==
    [][(IsUndo(ev') /\ History # <<>> /\ LastEdit.kind = "Insert")
        => /\ Len(Content') = Len(Content) - 1
           /\ Content' = WithoutChar(Content, char_of(LastEdit.pos, Content) + 1)]_vars

\* C40: after every key event, every window whose mode is not Command has
\* an empty command line: the cancel, Return with or without an error and
\* Backspace on an empty line leave no text behind, and no key outside
\* Command mode appends to the line.
C40_CommandLineEmpty ==
    \A w \in 1..Len(windows) : windows[w].mode # "Command" => windows[w].command = <<>>

\* Return has submitted the line "qq", which names no command: the error is
\* pending, the window is in Normal mode and its command line is empty.
C40_Witness ==
    /\ IsReturn(ev) /\ ev.st = "err" /\ ~crashed
    /\ pending_message = Some(<<"command '", "q", "q", "' doesn't exist">>)
    /\ FocusedWindow(State).mode = "Normal"
    /\ FocusedWindow(State).command = <<>>

====
